---- MODULE Spec2Model ----
(***************************************************************************)
(* Session lifecycle, termination rule and final-report delivery of the    *)
(* Agentic Honey-Pot service.                                              *)
(*                                                                         *)
(* Sources: the process-message / end-session handlers and the helpers     *)
(* shouldEndConversation and sendFinalCallback (src/unnamed/part_006),     *)
(* Session and SessionManager (src/src/core/SessionManager.js),            *)
(* CallbackService.sendCallback (src/src/services/CallbackService.js) and  *)
(* IntelligenceExtractor.extract (src/src/core/IntelligenceExtractor.js).  *)
(*                                                                         *)
(* Time is kept relative and in minutes: a session stores the minutes      *)
(* elapsed since its lastActivity and a purge timer the minutes left until *)
(* it fires.  Requests arrive on a grid of PeriodsPerTick cleanup periods; *)
(* a sendCallback call (at most 3 x 5 s + 2 x 1 s) ends within the period  *)
(* in which it began.                                                      *)
(*                                                                         *)
(* Node runs a handler without interruption up to its first await on real  *)
(* I/O.  detectionEngine.analyze and aiAgent.generateResponse are async    *)
(* functions that perform no I/O, so the only points at which another      *)
(* request, the sweep or a purge timer can run in the middle of a handler  *)
(* are the awaits of sendCallback (axios.post and the retry delay).        *)
(***************************************************************************)
EXTENDS Integers, Sequences, FiniteSets, TLC

VARIABLES
    sessions,      \* SessionManager.sessions: id -> Session or NoSession
    timers,        \* pending closeSession purge timeouts: [sid, left]
    sweepDue,      \* the cleanup interval has elapsed and its callback is pending
    inflight,      \* handlers suspended inside sendCallback, by request slot
    reports,       \* history: what the collector received per session
    out,           \* what the step just taken returned: HTTP response, sendCallback result
    episode,       \* history: the process-message turns of one session that overlap
    input,         \* the argument of the step just taken, where a property reads it
    now,           \* the wall clock in minutes, where message timestamps are followed
    stamps,        \* history: the receivedAt of each logged message, per session
    conversationMemory \* AIAgent.conversationMemory: context key -> context

vars == <<sessions, timers, sweepDue, inflight, reports, out, episode, input, now, stamps,
         conversationMemory>>

\* what the lifecycle specifications leave alone
aux == <<input, now, stamps, conversationMemory>>

----------------------------------------------------------------------------
(* Bounds of the model *)

\* process-message is accepted while the log holds fewer messages than this
MaxLog == 21
\* dormant turns one message log may hold, where they are bounded
MaxDormant == 1
\* inbound messages other than the scammer's plain "hi" one message log may hold
MaxSpecial == 1
\* cleanup periods between two instants at which requests arrive
PeriodsPerTick == 6
\* purge timers pending at once
MaxTimers == 2
\* handlers suspended in sendCallback at once
MaxInflight == 1
\* the same, where concurrent turns of one session are examined
MaxConcurrent == 2
\* the collector history counts POSTs up to this number
ReportCap == 2

(* Program constants *)

\* shouldEndConversation: messageCount >= 20
MaxMessages == 20
\* shouldEndConversation: hasGoodIntel && messageCount >= 8
MinMessagesForIntel == 8
\* shouldEndConversation: diffMinutes > 30
ConversationTimeout == 30
\* SessionManager.maxSessionAge, in minutes
maxSessionAge == 30
\* SessionManager.startCleanupInterval period, in minutes
CleanupPeriod == 5
\* closeSession setTimeout delay, in minutes
PurgeDelay == 60
\* CallbackService.maxRetries default
maxRetries == 3

SessionIds == {"s1"}

Categories == {"bankAccounts", "upiIds", "phoneNumbers", "phishingLinks",
               "emails", "cardNumbers", "ifscCodes", "suspiciousKeywords",
               "credentialRequests"}

Senders == {"scammer", "user"}
Texts == {"hi", "bank", "upi", "link", "ph1", "ph12", "mail"}
ReplyText == "reply"

----------------------------------------------------------------------------
(* Sequence helpers *)

RECURSIVE Dedup(_)
\* [...new Set(xs)]: first occurrences, in order
Dedup(xs) ==
    IF xs = <<>> THEN <<>>
    ELSE LET init == Dedup(SubSeq(xs, 1, Len(xs) - 1))
             last == xs[Len(xs)]
         IN IF \E i \in 1..Len(init) : init[i] = last THEN init
            ELSE Append(init, last)


----------------------------------------------------------------------------
(* Messages and the extractor *)

PlainMessage == [sender |-> "scammer", text |-> "hi"]
InboundMessages ==
    [sender : {"scammer"}, text : Texts] \cup {[sender |-> "user", text |-> "bank"]}
AgentReply == [sender |-> "user", text |-> ReplyText]

\* the normalized values the patterns of category c find in one text
Found(text, c) ==
    CASE text = "bank" /\ c = "bankAccounts" -> <<"XXXX1234">>
      [] text = "upi" /\ c = "upiIds" -> <<"pay@upi">>
      [] text = "link" /\ c = "phishingLinks" -> <<"http://x.example">>
      [] text = "ph1" /\ c = "phoneNumbers" -> <<"+919000000001">>
      [] text = "ph12" /\ c = "phoneNumbers" -> <<"+919000000001", "+919000000002">>
      [] text = "mail" /\ c = "emails" -> <<"a@b.example">>
      [] OTHER -> <<>>

EmptyIntelligence == [c \in Categories |-> <<>>]

\* the text of the scammer's next message after the n-th message ("" if none):
\* extract joins the scammer's texts with a space, so a pattern that accepts
\* whitespace inside a number may run on into the next text
NextScammerText(ms, n) ==
    LET later == {i \in (n + 1)..Len(ms) : ms[i].sender = "scammer"}
    IN IF later = {} THEN ""
       ELSE ms[CHOOSE i \in later : \A j \in later : i <= j].text

\* the normalized values the patterns of category c find at the n-th message.
\* "acct" is "account 1234 5678 9" and "digit" is "0": alone the account
\* patterns capture 123456789, followed by "0" they capture 1234567890
\* (correct while at most one "digit" follows)
FoundAt(ms, n, c) ==
    IF ms[n].text = "acct" /\ c = "bankAccounts"
    THEN IF NextScammerText(ms, n) = "digit" THEN <<"XXXX-XXXX-7890">>
         ELSE <<"XXXX-XXXX-6789">>
    ELSE Found(ms[n].text, c)

RECURSIVE FoundUpToAnySender(_, _, _)
\* variant of FoundUpTo: the messages are not filtered by sender
FoundUpToAnySender(ms, c, n) ==
    IF n = 0 THEN <<>>
    ELSE FoundUpToAnySender(ms, c, n - 1) \o FoundAt(ms, n, c)

RECURSIVE FoundUpTo(_, _, _)
\* matches of category c in the scammer's messages among the first n
FoundUpTo(ms, c, n) ==
    IF n = 0 THEN <<>>
    ELSE IF ms[n].sender = "scammer"
         THEN FoundUpTo(ms, c, n - 1) \o FoundAt(ms, n, c)
         ELSE FoundUpTo(ms, c, n - 1)

\* the weights of calculateRiskScore in hundredths, in the order of its keys
WeightKeys == <<"bankAccounts", "upiIds", "phoneNumbers", "phishingLinks", "emails",
                "cardNumbers", "ifscCodes", "suspiciousKeywords", "credentialRequests">>

Weight(c) ==
    CASE c = "bankAccounts" -> 15
      [] c = "upiIds" -> 15
      [] c = "phoneNumbers" -> 10
      [] c = "phishingLinks" -> 20
      [] c = "emails" -> 5
      [] c = "cardNumbers" -> 20
      [] c = "ifscCodes" -> 10
      [] c = "suspiciousKeywords" -> 5
      [] c = "credentialRequests" -> 25

\* Math.min(a, b)
Min(a, b) == IF a <= b THEN a ELSE b

RECURSIVE ScoreUpToUncapped(_, _)
\* variant of ScoreUpTo: a category is not capped at three values
ScoreUpToUncapped(intelligence, n) ==
    IF n = 0 THEN 0
    ELSE LET key == WeightKeys[n]
         IN ScoreUpToUncapped(intelligence, n - 1) + Len(intelligence[key]) * Weight(key)

RECURSIVE ScoreUpTo(_, _)
\* 100 x score after the first n keys.  The weights are multiples of 0.05, so
\* 100 x score is a multiple of 5 up to a float error far below 0.5 and
\* Math.round(score * 100) is this integer
ScoreUpTo(intelligence, n) ==
    IF n = 0 THEN 0
    ELSE LET key == WeightKeys[n]
             items == intelligence[key]
         IN ScoreUpTo(intelligence, n - 1)
            + (IF Len(items) > 0
               THEN Min(Len(items) * Weight(key), Weight(key) * 3)
               ELSE 0)

\* IntelligenceExtractor.calculateRiskScore
calculateRiskScore(intelligence) ==
    Min(ScoreUpTo(intelligence, Len(WeightKeys)), 100)

IntelligenceKeys == Categories \cup {"riskScore"}

\* Array.isArray(intelligence[key]); extractedAt, a string, is left out
IsArrayKey(key) == key # "riskScore"

WithRiskScore(arrays, score) ==
    [k \in IntelligenceKeys |-> IF k = "riskScore" THEN score ELSE arrays[k]]

\* IntelligenceExtractor.getEmptyIntelligence
getEmptyIntelligence == WithRiskScore(EmptyIntelligence, 0)

\* IntelligenceExtractor.extract
extract(messages) ==
    IF messages = <<>> THEN getEmptyIntelligence
    ELSE LET arrays == [c \in Categories |->
                           Dedup(FoundUpTo(messages, c, Len(messages)))]
         IN WithRiskScore(arrays, calculateRiskScore(arrays))

----------------------------------------------------------------------------
(* Session *)

\* new Session(id, metadata)
NewSession ==
    [messages |-> <<>>,
     isAgentActive |-> FALSE,
     scamDetected |-> FALSE,
     intelligence |-> EmptyIntelligence,
     lastActivityAge |-> 0,
     endedAt |-> FALSE,
     callbackSent |-> FALSE]

\* variant of addMessage: the message is put in front of the log
addMessageFront(sess, m) ==
    [sess EXCEPT !.messages = <<m>> \o @, !.lastActivityAge = 0]

addMessage(sess, m) ==
    [sess EXCEPT !.messages = Append(@, m), !.lastActivityAge = 0]

getMessageCount(sess) == Len(sess.messages)

\* variant of activateAgent: scamDetected is left as it is
activateAgentFlagOnly(sess) ==
    [sess EXCEPT !.isAgentActive = TRUE]

activateAgent(sess) ==
    [sess EXCEPT !.isAgentActive = TRUE, !.scamDetected = TRUE]

\* variant of updateIntelligence: the new arrays replace the old ones
updateIntelligenceReplace(sess, new) ==
    [sess EXCEPT !.intelligence =
        [key \in DOMAIN sess.intelligence |->
            IF key \in DOMAIN new /\ IsArrayKey(key) THEN new[key]
            ELSE sess.intelligence[key]]]

\* variant of updateIntelligence: the new arrays are appended as they come
updateIntelligenceConcat(sess, new) ==
    [sess EXCEPT !.intelligence =
        [key \in DOMAIN sess.intelligence |->
            IF key \in DOMAIN new /\ IsArrayKey(key)
            THEN sess.intelligence[key] \o new[key]
            ELSE sess.intelligence[key]]]

\* Session.updateIntelligence: only the array-valued keys of newIntelligence
\* are merged (all of them are keys of the session's intelligence)
updateIntelligence(sess, new) ==
    [sess EXCEPT !.intelligence =
        [key \in DOMAIN sess.intelligence |->
            IF key \in DOMAIN new /\ IsArrayKey(key)
            THEN Dedup(sess.intelligence[key] \o new[key])
            ELSE sess.intelligence[key]]]

end(sess) ==
    [sess EXCEPT !.endedAt = TRUE, !.isAgentActive = FALSE]

----------------------------------------------------------------------------
(* server helpers *)

\* variant of hasGoodIntel: a single phone number already counts
hasGoodIntelAnyPhone(intel) ==
    \/ Len(intel["bankAccounts"]) > 0
    \/ Len(intel["upiIds"]) > 0
    \/ Len(intel["phishingLinks"]) > 0
    \/ Len(intel["phoneNumbers"]) > 0

hasGoodIntel(intel) ==
    \/ Len(intel["bankAccounts"]) > 0
    \/ Len(intel["upiIds"]) > 0
    \/ Len(intel["phishingLinks"]) > 0
    \/ Len(intel["phoneNumbers"]) > 1

\* variant of shouldEndConversation: the cap is compared with > instead of >=
shouldEndConversationAbove(sess) ==
    \/ getMessageCount(sess) > MaxMessages
    \/ hasGoodIntel(sess.intelligence) /\ getMessageCount(sess) >= MinMessagesForIntel
    \/ sess.lastActivityAge > ConversationTimeout

shouldEndConversation(sess) ==
    \/ getMessageCount(sess) >= MaxMessages
    \/ hasGoodIntel(sess.intelligence) /\ getMessageCount(sess) >= MinMessagesForIntel
    \/ sess.lastActivityAge > ConversationTimeout

\* CallbackService.validateSessionData (the session id is always present here)
validateSessionData(sess) ==
    sess.scamDetected /\ getMessageCount(sess) # 0

----------------------------------------------------------------------------
(* SessionManager *)

\* closeSession(sessionId): the sessions map afterwards
closeSession(store, s) ==
    IF s \in DOMAIN store THEN [store EXCEPT ![s] = end(@)] ELSE store

PurgeTimerFor(s) == [sid |-> s, left |-> PurgeDelay]

\* closeSession(sessionId): the pending timeouts afterwards
closeSessionTimers(store, pending, s) ==
    IF s \in DOMAIN store THEN pending \cup {PurgeTimerFor(s)} ELSE pending

Remove(store, ids) == [x \in (DOMAIN store) \ ids |-> store[x]]

Put(store, s, sess) == [x \in (DOMAIN store) \cup {s} |-> IF x = s THEN sess ELSE store[x]]

----------------------------------------------------------------------------
(* History *)

NoCallback == [sid |-> "none", success |-> FALSE, attempts |-> 0, posts |-> 0, delays |-> 0]

NoResponse == [op |-> "none", sid |-> "none", status |-> 0, scamDetected |-> FALSE,
               replied |-> FALSE, callbackResult |-> NoCallback]

Nothing == [response |-> NoResponse, callback |-> NoCallback]

NoReport == [attempted |-> FALSE, failed |-> FALSE, accepted |-> 0]

Sat(n) == IF n >= ReportCap THEN ReportCap ELSE n

Posted(rep, s) == [rep EXCEPT ![s].attempted = TRUE]

Accepted(rep, s) == [rep EXCEPT ![s].accepted = Sat(@ + 1)]

\* the final callback of a terminating turn ran out of attempts
GaveUp(rep, r) == IF r.kind = "msg" THEN [rep EXCEPT ![r.sid].failed = TRUE] ELSE rep

Response(op, s, status, sd, replied, cb) ==
    [op |-> op, sid |-> s, status |-> status, scamDetected |-> sd,
     replied |-> replied, callbackResult |-> cb]

NoEpisode == [sid |-> "none", pre |-> NewSession, turns |-> <<>>, callbacks |-> 0]

\* process-message handlers of session s suspended in sendCallback
TurnsInFlight(s) ==
    {k \in DOMAIN inflight : inflight[k].kind = "msg" /\ inflight[k].sid = s}

\* a turn of s that calls sendCallback opens an episode or joins the open one
Joined(s, pre, m, isScam) ==
    LET t == [m |-> m, isScam |-> isScam]
    IN IF episode.sid = s /\ TurnsInFlight(s) # {}
       THEN [episode EXCEPT !.turns = Append(@, t), !.callbacks = @ + 1]
       ELSE [sid |-> s, pre |-> pre, turns |-> <<t>>, callbacks |-> 1]

----------------------------------------------------------------------------
Init ==
    /\ sessions = << >>
    /\ timers = {}
    /\ sweepDue = FALSE
    /\ inflight = << >>
    /\ reports = [s \in SessionIds |-> NoReport]
    /\ out = Nothing
    /\ episode = NoEpisode
    /\ input = "none"
    /\ now = 0
    /\ stamps = [s \in SessionIds |-> <<>>]
    /\ conversationMemory = << >>

\* turns that appended the inbound message only
DormantTurns(ms) ==
    Cardinality({i \in 1..Len(ms) :
        /\ ms[i] # AgentReply
        /\ (i = Len(ms) \/ ms[i + 1] # AgentReply)})

SpecialCount(ms) ==
    Cardinality({i \in 1..Len(ms) : ms[i] # PlainMessage /\ ms[i] # AgentReply})

Log(s) == IF s \in DOMAIN sessions THEN sessions[s].messages ELSE <<>>

IsDormantTurn(s, isScam) ==
    ~isScam /\ (s \in DOMAIN sessions => ~sessions[s].isAgentActive)

\* the environment of Spec: plain messages, few dormant turns
LifecycleInput(s, isScam) ==
    IsDormantTurn(s, isScam) => DormantTurns(Log(s)) < MaxDormant

\* the environment of SpecTurns: any message, any number of dormant turns, to a
\* session that has not been closed yet
TurnsInput(s, m) ==
    /\ m # PlainMessage => SpecialCount(Log(s)) < MaxSpecial
    /\ s \in DOMAIN sessions => ~sessions[s].endedAt

FreeSlots(cap) == (1..cap) \ DOMAIN inflight

FirstFree(cap) == CHOOSE k \in FreeSlots(cap) : \A j \in FreeSlots(cap) : k <= j

\* variant of Request: the retry delay is also waited before the first attempt
RequestAfterDelay(kind, s) ==
    [kind |-> kind, sid |-> s, attempt |-> 1, posts |-> 1, delays |-> 1]

\* sendFinalCallback(session) -> sendCallback(payload): attempt 1 is posted at once
Request(kind, s) ==
    [kind |-> kind, sid |-> s, attempt |-> 1, posts |-> 1, delays |-> 0]

\* variant of AfterTurn: the agent answers only the turns classified as scam
AfterTurnScamOnly(sess, m, isScam) ==
    LET s1 == addMessage(sess, m)
        s2 == IF isScam /\ ~s1.isAgentActive THEN activateAgent(s1) ELSE s1
        s3 == addMessage(s2, AgentReply)
    IN IF isScam THEN updateIntelligence(s3, extract(s3.messages)) ELSE s2

\* variant of AfterTurn: the agent is active only for turns classified as scam
AfterTurnNotSticky(sess, m, isScam) ==
    LET s1 == addMessage(sess, m)
        s2 == [s1 EXCEPT !.isAgentActive = isScam, !.scamDetected = @ \/ isScam]
        s3 == addMessage(s2, AgentReply)
    IN IF s2.isAgentActive THEN updateIntelligence(s3, extract(s3.messages)) ELSE s2

\* the session a process-message turn leaves behind when it responds or suspends
AfterTurn(sess, m, isScam) ==
    LET s1 == addMessage(sess, m)
        s2 == IF isScam /\ ~s1.isAgentActive THEN activateAgent(s1) ELSE s1
        s3 == addMessage(s2, AgentReply)
    IN IF s2.isAgentActive THEN updateIntelligence(s3, extract(s3.messages)) ELSE s2

\* variant of Terminates: shouldEndConversation is consulted on dormant turns too
TerminatesUnguarded(after) == shouldEndConversation(after)

\* the turn goes on to sendFinalCallback and closeSession
Terminates(after) == after.isAgentActive /\ shouldEndConversation(after)

\* POST /process-message, up to the response or to the first await of sendCallback
ProcessMessage(s, m, isScam, cap) ==
    LET s0 == IF s \in DOMAIN sessions THEN sessions[s] ELSE NewSession
        rep == IF s \in DOMAIN sessions THEN reports
               ELSE [reports EXCEPT ![s] = NoReport]
    IN \E s4 \in {AfterTurn(s0, m, isScam)} :
       /\ Len(s0.messages) < MaxLog
       /\ sessions' = Put(sessions, s, s4)
       /\ UNCHANGED <<timers, sweepDue>>
       /\ IF Terminates(s4)
          THEN /\ FreeSlots(cap) # {}
               /\ inflight' = Put(inflight, FirstFree(cap), Request("msg", s))
               /\ reports' = Posted(rep, s)
               /\ out' = Nothing
               /\ episode' = Joined(s, s0, m, isScam)
          ELSE /\ reports' = rep
               /\ out' = [Nothing EXCEPT !.response =
                             Response("msg", s, 200, s4.isAgentActive,
                                      s4.isAgentActive, NoCallback)]
               /\ episode' = NoEpisode
               /\ UNCHANGED inflight

\* variant of EndSession: a session that was closed before is answered not-found
EndSessionOnce(s, cap) ==
    /\ UNCHANGED <<sessions, timers, sweepDue>>
    /\ episode' = NoEpisode
    /\ IF s \notin DOMAIN sessions \/ sessions[s].endedAt
       THEN /\ out' = [Nothing EXCEPT !.response =
                          Response("end", s, 404, FALSE, FALSE, NoCallback)]
            /\ UNCHANGED <<inflight, reports>>
       ELSE /\ FreeSlots(cap) # {}
            /\ inflight' = Put(inflight, FirstFree(cap), Request("end", s))
            /\ reports' = Posted(reports, s)
            /\ out' = Nothing

\* POST /session/:sessionId/end, up to the 404 or to the first await of sendCallback
EndSession(s, cap) ==
    /\ UNCHANGED <<sessions, timers, sweepDue>>
    /\ episode' = NoEpisode
    /\ IF s \notin DOMAIN sessions
       THEN /\ out' = [Nothing EXCEPT !.response =
                          Response("end", s, 404, FALSE, FALSE, NoCallback)]
            /\ UNCHANGED <<inflight, reports>>
       ELSE /\ FreeSlots(cap) # {}
            /\ inflight' = Put(inflight, FirstFree(cap), Request("end", s))
            /\ reports' = Posted(reports, s)
            /\ out' = Nothing

\* the handler resumes after sendCallback returned result: closeSession, res.json
Resume(k, result) ==
    LET r == inflight[k]
    IN /\ Cardinality(closeSessionTimers(sessions, timers, r.sid)) <= MaxTimers
       /\ sessions' = closeSession(sessions, r.sid)
       /\ timers' = closeSessionTimers(sessions, timers, r.sid)
       /\ inflight' = Remove(inflight, {k})
       /\ episode' = IF r.kind = "msg" /\ r.sid = episode.sid THEN episode ELSE NoEpisode
       /\ out' = [callback |-> result,
                  response |->
                     IF r.kind = "msg"
                     THEN Response("msg", r.sid, 200, TRUE, TRUE, NoCallback)
                     ELSE Response("end", r.sid, 200, FALSE, FALSE, result)]

\* axios.post resolves with a 2xx status
CollectorAccepts(k) ==
    /\ k \in DOMAIN inflight
    /\ reports' = Accepted(reports, inflight[k].sid)
    /\ Resume(k, [sid |-> inflight[k].sid, success |-> TRUE,
                  attempts |-> inflight[k].attempt, posts |-> inflight[k].posts,
                  delays |-> inflight[k].delays])
    /\ UNCHANGED sweepDue

\* variant of HasNextAttempt: the loop stops one attempt early
HasNextAttemptShort(attempt) == attempt + 1 < maxRetries

\* sendCallback's loop goes round again after a failed attempt
HasNextAttempt(attempt) == attempt + 1 <= maxRetries

\* axios.post rejects: a non-2xx status, a transport failure or the timeout
CollectorFails(k) ==
    /\ k \in DOMAIN inflight
    /\ UNCHANGED sweepDue
    /\ LET r == inflight[k]
       IN IF HasNextAttempt(r.attempt)
          THEN /\ inflight' = [inflight EXCEPT ![k].attempt = @ + 1,
                                               ![k].posts = @ + 1,
                                               ![k].delays = @ + 1]
               /\ reports' = Posted(reports, r.sid)
               /\ out' = Nothing
               /\ UNCHANGED <<sessions, timers, episode>>
          ELSE /\ reports' = GaveUp(reports, r)
               /\ Resume(k, [sid |-> r.sid, success |-> FALSE,
                             attempts |-> maxRetries, posts |-> r.posts,
                             delays |-> r.delays])

TickMinutes == PeriodsPerTick * CleanupPeriod

\* time passes up to the next instant at which requests arrive
Tick ==
    /\ ~sweepDue
    /\ \A t \in timers : t.left > 0
    /\ DOMAIN inflight = {}
    /\ sessions' = [s \in DOMAIN sessions |->
                      [sessions[s] EXCEPT !.lastActivityAge = @ + TickMinutes]]
    /\ timers' = {[t EXCEPT !.left = @ - TickMinutes] : t \in timers}
    /\ sweepDue' = TRUE
    /\ out' = Nothing
    /\ episode' = NoEpisode
    /\ UNCHANGED <<inflight, reports>>

\* the ids cleanupOldSessions deletes
Expired(store) == {s \in DOMAIN store : store[s].lastActivityAge > maxSessionAge}

\* SessionManager.cleanupOldSessions, run by the cleanup interval
CleanupOldSessions ==
    /\ sweepDue
    /\ sessions' = Remove(sessions, Expired(sessions))
    /\ sweepDue' = FALSE
    /\ out' = Nothing
    /\ episode' = NoEpisode
    /\ UNCHANGED <<timers, inflight, reports>>

\* the timeout set by closeSession fires: this.sessions.delete(sessionId)
PurgeTimer(t) ==
    /\ t \in timers
    /\ t.left <= 0
    /\ sessions' = Remove(sessions, {t.sid})
    /\ timers' = timers \ {t}
    /\ out' = Nothing
    /\ episode' = NoEpisode
    /\ UNCHANGED <<sweepDue, inflight, reports>>

Next ==
    \/ \E s \in SessionIds, isScam \in BOOLEAN :
          /\ LifecycleInput(s, isScam)
          /\ ProcessMessage(s, PlainMessage, isScam, MaxInflight)
          /\ UNCHANGED aux
    \/ \E s \in SessionIds : EndSession(s, MaxInflight) /\ UNCHANGED aux
    \/ \E k \in 1..MaxInflight : CollectorAccepts(k) /\ UNCHANGED aux
    \/ \E k \in 1..MaxInflight : CollectorFails(k) /\ UNCHANGED aux
    \/ Tick /\ UNCHANGED aux
    \/ CleanupOldSessions /\ UNCHANGED aux
    \/ \E t \in timers : PurgeTimer(t) /\ UNCHANGED aux

Spec == Init /\ [][Next]_vars

\* turns with every kind of inbound message; no explicit end request, no time
NextTurns ==
    \/ \E s \in SessionIds, m \in InboundMessages, isScam \in BOOLEAN :
          /\ TurnsInput(s, m)
          /\ ProcessMessage(s, m, isScam, MaxInflight)
          /\ UNCHANGED aux
    \/ \E k \in 1..MaxInflight : CollectorAccepts(k) /\ UNCHANGED aux
    \/ \E k \in 1..MaxInflight : CollectorFails(k) /\ UNCHANGED aux

SpecTurns == Init /\ [][NextTurns]_vars

\* concurrent turns of one session
NextConcurrent ==
    \/ \E s \in SessionIds, isScam \in BOOLEAN :
          /\ LifecycleInput(s, isScam)
          /\ ProcessMessage(s, PlainMessage, isScam, MaxConcurrent)
          /\ UNCHANGED aux
    \/ \E k \in 1..MaxConcurrent : CollectorAccepts(k) /\ UNCHANGED aux
    \/ \E k \in 1..MaxConcurrent : CollectorFails(k) /\ UNCHANGED aux

SpecConcurrent == Init /\ [][NextConcurrent]_vars

----------------------------------------------------------------------------
(* What one step did, read off the state before and after it *)

LogBefore(s) == IF s \in DOMAIN sessions THEN sessions[s].messages ELSE <<>>

\* a process-message turn of session s ran in this step
TurnStep(s) ==
    s \in DOMAIN sessions' /\ Len(sessions'[s].messages) > Len(LogBefore(s))

\* ... and it appended the inbound message and the agent's reply
EngagingTurn(s) ==
    s \in DOMAIN sessions' /\ Len(sessions'[s].messages) = Len(LogBefore(s)) + 2

Started == (DOMAIN inflight') \ (DOMAIN inflight)

\* a process-message turn of s went on to send the final callback in this step
SendsFinalCallback(s) ==
    \E k \in Started : inflight'[k].kind = "msg" /\ inflight'[k].sid = s

----------------------------------------------------------------------------
(* C1: callbackSent becomes true exactly when the final report of the      *)
(* session has been delivered successfully, and is false before that and   *)
(* after a failed delivery.                                                *)
C1_CallbackSentIffDelivered ==
    \A s \in DOMAIN sessions :
        sessions[s].callbackSent <=> reports[s].accepted > 0

(* C2: no session in which a scam was detected leaves the store (idle      *)
(* sweep or purge) unless its final report has been attempted at least     *)
(* once.                                                                   *)
C2_ScamSessionReportedBeforeRemoval ==
    [][\A s \in DOMAIN sessions :
          sessions[s].scamDetected /\ s \notin DOMAIN sessions'
              => reports[s].attempted]_vars

(* C3, as claimed: while a session stays in the store no step sets         *)
(* isAgentActive back from true to false.                                  *)
C3_ActiveNeverReset ==
    [][\A s \in (DOMAIN sessions) \cap (DOMAIN sessions') :
          sessions[s].isAgentActive => sessions'[s].isAgentActive]_vars

(* C3, amended: while a session stays in the store, the only step that     *)
(* sets isAgentActive back to false is Session.end(), run by closeSession  *)
(* when a terminating turn or an explicit end request finishes; it changes *)
(* nothing else but endedAt.  Turns, the sweep and timers never reset it.  *)
C3_ActiveResetOnlyByEnd ==
    [][\A s \in (DOMAIN sessions) \cap (DOMAIN sessions') :
          sessions[s].isAgentActive /\ ~sessions'[s].isAgentActive
              => sessions'[s] = [sessions[s] EXCEPT !.endedAt = TRUE,
                                                    !.isAgentActive = FALSE]]_vars

\* a session whose agent was activated and has been reset by end()
C3_Witness ==
    \E s \in DOMAIN sessions :
        sessions[s].scamDetected /\ sessions[s].endedAt /\ ~sessions[s].isAgentActive

(* C4, as claimed: a turn that sends the final callback leaves the message *)
(* count at 20 at most (the cap fires exactly at 20, never above).         *)
C4_NeverAboveCap ==
    \A k \in DOMAIN inflight :
        inflight[k].kind = "msg" /\ inflight[k].sid \in DOMAIN sessions
            => Len(sessions[inflight[k].sid].messages) <= 20

(* C4, amended: every engaging turn that leaves the message count at 20 or *)
(* more sends the final callback, whatever intelligence was captured, and  *)
(* a turn that sends it without a link, account, handle or second phone    *)
(* number has reached 20; the count at that turn may exceed 20.            *)
C4_CapFiresFromTwenty ==
    [][\A s \in SessionIds :
          EngagingTurn(s) =>
              LET after == sessions'[s]
                  n == Len(after.messages)
                  intel == after.intelligence
              IN /\ n >= 20 => SendsFinalCallback(s)
                 /\ ( /\ SendsFinalCallback(s)
                      /\ intel["bankAccounts"] = <<>>
                      /\ intel["upiIds"] = <<>>
                      /\ intel["phishingLinks"] = <<>>
                      /\ Len(intel["phoneNumbers"]) <= 1 ) => n >= 20]_vars

\* the cap rule fired at a count above 20
C4_Witness ==
    \E k \in DOMAIN inflight :
        /\ inflight[k].kind = "msg"
        /\ inflight[k].sid \in DOMAIN sessions
        /\ Len(sessions[inflight[k].sid].messages) = 21
        /\ ~hasGoodIntel(sessions[inflight[k].sid].intelligence)

(* C5: after an engaging turn that leaves fewer than 20 messages (and no   *)
(* idle timeout) the final callback is sent if and only if the count is at *)
(* least 8 and bankAccounts, upiIds or phishingLinks is non-empty or       *)
(* phoneNumbers holds more than one value.                                 *)
C5_EarlyTerminationRule ==
    [][\A s \in SessionIds :
          EngagingTurn(s) =>
              LET after == sessions'[s]
                  n == Len(after.messages)
                  intel == after.intelligence
              IN n < 20 /\ after.lastActivityAge <= 30 =>
                   ( SendsFinalCallback(s) <=>
                       /\ n >= 8
                       /\ \/ Len(intel["bankAccounts"]) > 0
                          \/ Len(intel["upiIds"]) > 0
                          \/ Len(intel["phishingLinks"]) > 0
                          \/ Len(intel["phoneNumbers"]) > 1 )]_vars

\* termination fired below 20 messages on two captured phone numbers alone
C5_Witness ==
    \E k \in DOMAIN inflight :
        /\ inflight[k].kind = "msg"
        /\ inflight[k].sid \in DOMAIN sessions
        /\ LET sess == sessions[inflight[k].sid]
           IN /\ Len(sess.messages) \in 8..19
              /\ Len(sess.intelligence["phoneNumbers"]) = 2
              /\ sess.intelligence["bankAccounts"] = <<>>
              /\ sess.intelligence["upiIds"] = <<>>
              /\ sess.intelligence["phishingLinks"] = <<>>

(* C6: a process-message turn of a session in which no turn was classified *)
(* as scam produces no reply, sends no final callback and does not close   *)
(* the session, whatever the message count.                                *)
C6_DormantNeverTerminates ==
    [][\A s \in SessionIds :
          TurnStep(s) /\ ~sessions'[s].scamDetected =>
              /\ ~SendsFinalCallback(s)
              /\ inflight' = inflight
              /\ ~reports'[s].attempted
              /\ ~sessions'[s].endedAt
              /\ timers' = timers
              /\ ~out'.response.replied
              /\ Len(sessions'[s].messages) = Len(LogBefore(s)) + 1]_vars

\* a session never classified as scam holds 20 messages and is still open
C6_Witness ==
    \E s \in DOMAIN sessions :
        /\ ~sessions[s].scamDetected
        /\ Len(sessions[s].messages) >= 20
        /\ ~sessions[s].endedAt
        /\ ~reports[s].attempted

(* C7: whenever a handler starts sending a final report (automatic         *)
(* termination or explicit end request) the session passes validation:     *)
(* scamDetected is true and the message log is not empty; otherwise the    *)
(* collector is not contacted.                                             *)
C7_ValidatedBeforeSend ==
    [][\A k \in Started :
          LET s == inflight'[k].sid
          IN /\ s \in DOMAIN sessions'
             /\ sessions'[s].scamDetected
             /\ Len(sessions'[s].messages) > 0]_vars

(* C8: a sendCallback call that returns a failed result has made exactly   *)
(* maxRetries POSTs, reports attempts = maxRetries, did not throw (the     *)
(* handler went on to answer 200) and leaves callbackSent false.           *)
C8_FailsAfterMaxRetries ==
    out.callback.sid # "none" /\ ~out.callback.success =>
        /\ out.callback.posts = maxRetries
        /\ out.callback.attempts = maxRetries
        /\ out.response.status = 200
        /\ \A s \in DOMAIN sessions :
               s = out.callback.sid => ~sessions[s].callbackSent

\* sendCallback has just returned a failed result
C8_Witness ==
    /\ out.callback.sid # "none"
    /\ ~out.callback.success
    /\ out.callback.posts = maxRetries

(* C9, as claimed: an explicit end request for a session whose final       *)
(* report exhausted its retries finds the session and starts a delivery;   *)
(* it is never answered not-found.                                         *)
C9_EndRetriesAfterFailure ==
    [][\A s \in SessionIds :
          reports[s].failed /\ reports[s].accepted = 0
              => ~(out'.response.op = "end" /\ out'.response.sid = s
                   /\ out'.response.status = 404)]_vars

(* C9, amended: a terminating turn whose delivery exhausted its retries    *)
(* still answers 200 with the reply and callbackSent stays false; an       *)
(* explicit end request made while the session is in the store starts a    *)
(* fresh attempt sequence (first POST, no delay counted); it is answered   *)
(* not-found only after the idle sweep or a purge timer removed the        *)
(* session.                                                                *)
C9_EndRetriesWhileStored ==
    [][/\ \A k \in Started :
            inflight'[k].kind = "end" =>
                /\ inflight'[k].sid \in DOMAIN sessions
                /\ inflight'[k].attempt = 1
                /\ inflight'[k].posts = 1
                /\ inflight'[k].delays = 0
       /\ \A s \in DOMAIN sessions :
            ~(out'.response.op = "end" /\ out'.response.sid = s
              /\ out'.response.status = 404)
       /\ ( out'.callback.sid # "none" /\ ~out'.callback.success
            /\ out'.response.op = "msg" ) =>
                /\ out'.response.status = 200
                /\ out'.response.replied
                /\ \A s \in DOMAIN sessions' :
                       s = out'.callback.sid => ~sessions'[s].callbackSent]_vars

\* an end request is delivering afresh for a stored session whose earlier
\* delivery exhausted its retries
C9_Witness ==
    \E k \in DOMAIN inflight :
        /\ inflight[k].kind = "end"
        /\ inflight[k].attempt = 1
        /\ inflight[k].sid \in DOMAIN sessions
        /\ reports[inflight[k].sid].failed
        /\ reports[inflight[k].sid].accepted = 0

----------------------------------------------------------------------------
(* Serial execution of the turns of an episode *)

RECURSIVE SerialRun(_, _, _)
\* the turns ts run one after the other, each to its end (closeSession included)
SerialRun(sess, callbacks, ts) ==
    IF ts = <<>> THEN [sess |-> sess, callbacks |-> callbacks]
    ELSE LET after == AfterTurn(sess, Head(ts).m, Head(ts).isScam)
         IN IF Terminates(after)
            THEN SerialRun(end(after), callbacks + 1, Tail(ts))
            ELSE SerialRun(after, callbacks, Tail(ts))

Orders(n) == {p \in [1..n -> 1..n] : \A i, j \in 1..n : p[i] = p[j] => i = j}

SameOutcome(sess, callbacks, serial) ==
    /\ sess.messages = serial.sess.messages
    /\ sess.intelligence = serial.sess.intelligence
    /\ sess.isAgentActive = serial.sess.isAgentActive
    /\ callbacks = serial.callbacks

(* C10: when the process-message requests of one session that overlapped   *)
(* have all finished, the session's message log, intelligence and          *)
(* activation flag and the number of final callbacks sent equal those of   *)
(* running the same requests one after the other in some order.            *)
C10_TurnsSerializable ==
    ( /\ episode.sid \in DOMAIN sessions
      /\ TurnsInFlight(episode.sid) = {} ) =>
        \E p \in Orders(Len(episode.turns)) :
            SameOutcome(sessions[episode.sid], episode.callbacks,
                        SerialRun(episode.pre, 0,
                                  [i \in 1..Len(episode.turns) |-> episode.turns[p[i]]]))

----------------------------------------------------------------------------
(* Engagement: turns whose classification is recorded *)

\* POST /process-message; input keeps detectionResult.isScam of the turn
ClassifiedTurn(s, isScam) ==
    /\ ProcessMessage(s, PlainMessage, isScam, MaxInflight)
    /\ input' = isScam
    /\ UNCHANGED <<now, stamps, conversationMemory>>

NextEngage ==
    \/ \E s \in SessionIds, isScam \in BOOLEAN : ClassifiedTurn(s, isScam)
    \/ \E k \in 1..MaxInflight : CollectorAccepts(k) /\ UNCHANGED aux
    \/ \E k \in 1..MaxInflight : CollectorFails(k) /\ UNCHANGED aux

SpecEngage == Init /\ [][NextEngage]_vars

WasActive(s) == s \in DOMAIN sessions /\ sessions[s].isAgentActive

(* C11: a session starts engaging at the first turn classified as scam and *)
(* engaging is sticky: on a turn of a session that is not engaging the     *)
(* agent is activated exactly when the turn is classified as scam, and on  *)
(* every turn of an engaging session a reply is appended and the response  *)
(* reports scamDetected true, whatever that turn's own classification.     *)
C11_EngagingIsSticky ==
    [][\A s \in SessionIds :
          TurnStep(s) =>
              LET engaging == WasActive(s) \/ input' = TRUE
              IN /\ EngagingTurn(s) <=> engaging
                 /\ sessions'[s].isAgentActive <=> engaging
                 /\ engaging => sessions'[s].scamDetected
                 /\ sessions'[s].messages[Len(LogBefore(s)) + 1].sender = "scammer"
                 /\ engaging => sessions'[s].messages[Len(LogBefore(s)) + 2] = AgentReply
                 /\ out'.response.op = "msg" =>
                        /\ out'.response.scamDetected <=> engaging
                        /\ out'.response.replied <=> engaging]_vars

\* an engaging session has just answered a turn that was not classified as scam
C11_Witness ==
    /\ out.response.op = "msg"
    /\ input = FALSE
    /\ out.response.replied
    /\ out.response.scamDetected
    /\ \E s \in DOMAIN sessions :
          /\ s = out.response.sid
          /\ sessions[s].isAgentActive
          /\ Len(sessions[s].messages) >= 4

----------------------------------------------------------------------------
(* The message log and its timestamps *)

\* process-message is accepted here while the log holds fewer messages than this
MaxStamped == 3
\* the clock stops here
MaxNow == 60

\* Session.addMessage: receivedAt = new Date() for each message the turn pushed
StampedTurn(s, isScam) ==
    /\ Len(Log(s)) < MaxStamped
    /\ ProcessMessage(s, PlainMessage, isScam, MaxInflight)
    /\ LET before == IF s \in DOMAIN sessions THEN stamps[s] ELSE <<>>
           pushed == Len(sessions'[s].messages) - Len(LogBefore(s))
       IN stamps' = [stamps EXCEPT ![s] = before \o [i \in 1..pushed |-> now]]
    /\ UNCHANGED <<input, now, conversationMemory>>

\* time passes and Date.now() with it
ClockTick ==
    /\ now < MaxNow
    /\ Tick
    /\ now' = now + TickMinutes
    /\ UNCHANGED <<input, stamps, conversationMemory>>

NextLog ==
    \/ \E s \in SessionIds, isScam \in BOOLEAN : StampedTurn(s, isScam)
    \/ \E s \in SessionIds : EndSession(s, MaxInflight) /\ UNCHANGED aux
    \/ \E k \in 1..MaxInflight : CollectorAccepts(k) /\ UNCHANGED aux
    \/ \E k \in 1..MaxInflight : CollectorFails(k) /\ UNCHANGED aux
    \/ ClockTick
    \/ CleanupOldSessions /\ UNCHANGED aux
    \/ \E t \in timers : PurgeTimer(t) /\ UNCHANGED aux

SpecLog == Init /\ [][NextLog]_vars

IsPrefix(xs, ys) == Len(xs) <= Len(ys) /\ xs = SubSeq(ys, 1, Len(xs))

----------------------------------------------------------------------------
(* Accumulated intelligence *)

\* process-message is accepted here while the log holds fewer messages than this
MaxIntelLog == 6

IntelTexts == {"hi", "upi", "acct", "digit"}

IntelMessages == [sender : {"scammer"}, text : IntelTexts]

DigitCount(ms) == Cardinality({i \in 1..Len(ms) : ms[i].text = "digit"})

\* a short conversation in which at most one message is a lone digit
IntelInput(s, m) ==
    /\ Len(Log(s)) < MaxIntelLog
    /\ m.text = "digit" => DigitCount(Log(s)) = 0

NextIntel ==
    \E s \in SessionIds, m \in IntelMessages, isScam \in BOOLEAN :
        /\ IntelInput(s, m)
        /\ ProcessMessage(s, m, isScam, MaxInflight)
        /\ UNCHANGED aux

SpecIntel == Init /\ [][NextIntel]_vars

Values(xs) == {xs[i] : i \in 1..Len(xs)}

(* C13: the accumulated intelligence of a session is additive only: every  *)
(* value recorded in a category is still in that category after every step *)
(* that leaves the session in the store.                                   *)
C13_IntelligenceAdditive ==
    [][\A s \in (DOMAIN sessions) \cap (DOMAIN sessions') :
          \A c \in Categories :
              Values(sessions[s].intelligence[c])
                  \subseteq Values(sessions'[s].intelligence[c])]_vars

\* the session keeps an account value that extracting from its present log no
\* longer yields
C13_Witness ==
    \E s \in DOMAIN sessions :
        /\ "XXXX-XXXX-6789" \in Values(sessions[s].intelligence["bankAccounts"])
        /\ "XXXX-XXXX-6789" \notin Values(extract(sessions[s].messages)["bankAccounts"])

(* C14: no category of a session's accumulated intelligence holds the same *)
(* value twice, however often the value is extracted again from the        *)
(* growing log.                                                            *)
C14_NoDuplicateValues ==
    \A s \in DOMAIN sessions :
        \A c \in Categories :
            \A i, j \in 1..Len(sessions[s].intelligence[c]) :
                i # j => sessions[s].intelligence[c][i] # sessions[s].intelligence[c][j]

\* a handle recorded at the first turn has been extracted again by two later
\* engaging turns
C14_Witness ==
    \E s \in DOMAIN sessions :
        /\ Len(sessions[s].messages) >= 6
        /\ sessions[s].messages[1].text = "upi"
        /\ sessions[s].messages[2] = AgentReply
        /\ sessions[s].messages[4] = AgentReply
        /\ sessions[s].messages[6] = AgentReply
        /\ sessions[s].intelligence["upiIds"] = <<"pay@upi">>

(* C15: after every merge of extracted intelligence the session's          *)
(* accumulated intelligence carries a riskScore between 0 and 100 equal to *)
(* the score recomputed from its merged categories.                        *)
C15_RiskScoreFollowsMerge ==
    \A s \in DOMAIN sessions :
        sessions[s].scamDetected =>
            /\ "riskScore" \in DOMAIN sessions[s].intelligence
            /\ sessions[s].intelligence["riskScore"] \in 0..100
            /\ sessions[s].intelligence["riskScore"]
                   = calculateRiskScore(sessions[s].intelligence)

----------------------------------------------------------------------------
(* Pure functions of the extractor and the detection engine: the argument  *)
(* is drawn when the behaviour starts and the function is applied to it    *)

\* everything but the argument and the value returned
server == <<sessions, timers, sweepDue, inflight, reports, episode, now, stamps,
           conversationMemory>>

\* no session, no request, no timer
NoServer ==
    /\ sessions = << >>
    /\ timers = {}
    /\ sweepDue = FALSE
    /\ inflight = << >>
    /\ reports = [s \in SessionIds |-> NoReport]
    /\ episode = NoEpisode
    /\ now = 0
    /\ stamps = [s \in SessionIds |-> <<>>]
    /\ conversationMemory = << >>

----------------------------------------------------------------------------
(* mergeIntelligence *)

\* values one category of an argument holds at most
MaxMergeValues == 2

UpiValues == {"pay@upi", "win@upi", "kyc@upi", "otp@upi"}
PhoneValues == {"+919000000001", "+919000000002"}

\* the arrays of at most MaxMergeValues values of vs, none repeated
ArraysOver(vs) ==
    {xs \in UNION {[1..n -> vs] : n \in 0..MaxMergeValues} :
        \A i, j \in 1..Len(xs) : i # j => xs[i] # xs[j]}

\* Intelligence values as extract returns them: no repetition in a category,
\* riskScore computed from the categories
MergeInputs ==
    {WithRiskScore(arrays, calculateRiskScore(arrays)) :
        arrays \in {[EmptyIntelligence EXCEPT !["upiIds"] = u, !["phoneNumbers"] = p] :
                       u \in ArraysOver(UpiValues), p \in ArraysOver(PhoneValues)}}

RECURSIVE PushAll(_, _, _)
\* merged[c] after merged[c].push(...intel[c]) for the first n elements
PushAll(intelligenceArray, c, n) ==
    IF n = 0 THEN <<>>
    ELSE PushAll(intelligenceArray, c, n - 1) \o intelligenceArray[n][c]

\* variant of mergeIntelligence: duplicates are not removed
mergeIntelligenceAll(intelligenceArray) ==
    LET arrays == [c \in Categories |->
                      PushAll(intelligenceArray, c, Len(intelligenceArray))]
    IN WithRiskScore(arrays, calculateRiskScore(arrays))

\* IntelligenceExtractor.mergeIntelligence
mergeIntelligence(intelligenceArray) ==
    LET arrays == [c \in Categories |->
                      Dedup(PushAll(intelligenceArray, c, Len(intelligenceArray)))]
    IN WithRiskScore(arrays, calculateRiskScore(arrays))

InitMerge ==
    /\ NoServer
    /\ input \in [a : MergeInputs, b : MergeInputs]
    /\ out = Nothing

Merge(intelligenceArray) ==
    /\ out' = [list |-> intelligenceArray, merged |-> mergeIntelligence(intelligenceArray)]
    /\ UNCHANGED <<input, server>>

NextMerge ==
    \E intelligenceArray \in {<<input.a, input.a>>, <<input.a, input.b>>,
                              <<input.b, input.a>>} :
        Merge(intelligenceArray)

SpecMerge == InitMerge /\ [][NextMerge]_vars

Merged == out # Nothing

\* the risk score of category sizes: each category counts up to three values
SizeScore(size) ==
    LET part(c) == Weight(c) * (IF size[c] > 3 THEN 3 ELSE size[c])
        total == part("bankAccounts") + part("upiIds") + part("phoneNumbers")
                 + part("phishingLinks") + part("emails") + part("cardNumbers")
                 + part("ifscCodes") + part("suspiciousKeywords")
                 + part("credentialRequests")
    IN IF total > 100 THEN 100 ELSE total

(* C16: mergeIntelligence is idempotent and order-independent: merging two *)
(* values yields, in every category, exactly the union of their values,    *)
(* each once, and the risk score of that union, in either order; merging a *)
(* value with itself yields its own contents and its own riskScore.        *)
C16_MergeIdempotentCommutative ==
    Merged =>
        LET x == out.list[1]
            y == out.list[2]
            union == [c \in Categories |-> Values(x[c]) \cup Values(y[c])]
        IN /\ \A c \in Categories :
                 /\ Values(out.merged[c]) = union[c]
                 /\ Len(out.merged[c]) = Cardinality(union[c])
           /\ out.merged["riskScore"]
                  = SizeScore([c \in Categories |-> Cardinality(union[c])])
           /\ out.merged["riskScore"] = mergeIntelligence(<<y, x>>)["riskScore"]
           /\ \A c \in Categories :
                 Values(out.merged[c]) = Values(mergeIntelligence(<<y, x>>)[c])
           /\ x = y => out.merged["riskScore"] = x["riskScore"]

\* two values sharing a number and holding four handles between them have
\* been merged: the handles count as three
C16_Witness ==
    /\ Merged
    /\ out.list[1] # out.list[2]
    /\ Len(out.list[1]["upiIds"]) = 2
    /\ Len(out.list[2]["upiIds"]) = 2
    /\ Len(out.merged["upiIds"]) = 4
    /\ out.list[1]["phoneNumbers"] = out.list[2]["phoneNumbers"]
    /\ Len(out.merged["phoneNumbers"]) = 1
    /\ out.merged["riskScore"] = 55

----------------------------------------------------------------------------
(* calculateRiskScore *)

\* values one category holds at most
MaxCount == 4
\* categories that hold a value at most
MaxNonEmpty == 3

ArrayOfSize(n) == [i \in 1..n |-> i]

RiskInputs ==
    {size \in [Categories -> 0..MaxCount] :
        Cardinality({c \in Categories : size[c] > 0}) <= MaxNonEmpty}

InitRisk ==
    /\ NoServer
    /\ input \in RiskInputs
    /\ out = Nothing

Score ==
    /\ out' = [score |-> calculateRiskScore([c \in Categories |-> ArrayOfSize(input[c])])]
    /\ UNCHANGED <<input, server>>

NextRisk == Score

SpecRisk == InitRisk /\ [][NextRisk]_vars

Scored == out # Nothing

\* the claimed weights, in hundredths
ClaimedWeight ==
    [bankAccounts |-> 15, upiIds |-> 15, phoneNumbers |-> 10, phishingLinks |-> 20,
     emails |-> 5, cardNumbers |-> 20, ifscCodes |-> 10, suspiciousKeywords |-> 5,
     credentialRequests |-> 25]

\* 100 x min(count x weight, 3 x weight)
ClaimedPart(size, c) ==
    IF size[c] * ClaimedWeight[c] <= 3 * ClaimedWeight[c]
    THEN size[c] * ClaimedWeight[c]
    ELSE 3 * ClaimedWeight[c]

ClaimedScore(size) ==
    LET total == ClaimedPart(size, "bankAccounts") + ClaimedPart(size, "upiIds")
                 + ClaimedPart(size, "phoneNumbers") + ClaimedPart(size, "phishingLinks")
                 + ClaimedPart(size, "emails") + ClaimedPart(size, "cardNumbers")
                 + ClaimedPart(size, "ifscCodes")
                 + ClaimedPart(size, "suspiciousKeywords")
                 + ClaimedPart(size, "credentialRequests")
    IN IF total <= 100 THEN total ELSE 100

(* C18: calculateRiskScore returns min(100, round(100 x the sum over the   *)
(* categories of min(count x weight, 3 x weight))) with the weights 0.15,  *)
(* 0.15, 0.10, 0.20, 0.05, 0.20, 0.10, 0.05, 0.25; the result is an        *)
(* integer between 0 and 100 and does not decrease when a category grows.  *)
C18_RiskScoreFormula ==
    Scored =>
        /\ out.score = ClaimedScore(input)
        /\ out.score \in 0..100
        /\ \A c \in Categories :
               calculateRiskScore([d \in Categories |->
                   ArrayOfSize(IF d = c THEN input[d] + 1 ELSE input[d])]) >= out.score

\* a score below 100 in which one category is past its cap of three values
C18_Witness ==
    /\ Scored
    /\ input["phoneNumbers"] = 4
    /\ input["emails"] = 2
    /\ input["bankAccounts"] = 1
    /\ out.score = 55

----------------------------------------------------------------------------
(* The number extractors, character by character.  A character is a digit  *)
(* 0..9 or one of the codes below; a text is an optional "card " followed  *)
(* by one token, a run of digits or four groups of four digits joined by   *)
(* dashes.                                                                 *)

Dash == 10
LetterX == 11
PlusSign == 12

\* lengths of the short runs of digits
MinRun == 9
MaxRun == 10
\* trailing digits of a long token that vary
FreeDigits == 2
\* lengths of the long tokens
MinLong == 12
MaxLong == 19

IsDigit(ch) == ch \in 0..9

IsPure(token) == \A i \in 1..Len(token) : IsDigit(token[i])

\* .replace(/[\s-]/g, '')
StripSeparators(chars) == SelectSeq(chars, IsDigit)

\* data.slice(-4)
Last4(data) == IF Len(data) <= 4 THEN data ELSE SubSeq(data, Len(data) - 3, Len(data))

Mask4 == <<LetterX, LetterX, LetterX, LetterX, Dash>>

\* IntelligenceExtractor.maskSensitiveData
maskSensitiveData(data, type) ==
    CASE type = "account" -> Mask4 \o Mask4 \o Last4(data)
      [] type = "card" -> Mask4 \o Mask4 \o Mask4 \o Last4(data)
      [] OTHER -> data

RECURSIVE LuhnSum(_, _, _)
\* the loop of validateLuhn from index i (1-based) down to the first character
LuhnSum(cardNumber, i, isEven) ==
    IF i = 0 THEN 0
    ELSE LET doubled == cardNumber[i] * 2
             digit == IF isEven THEN (IF doubled > 9 THEN doubled - 9 ELSE doubled)
                      ELSE cardNumber[i]
         IN digit + LuhnSum(cardNumber, i - 1, ~isEven)

\* variant of validateLuhn: the checksum is not looked at
validateLuhnLengthOnly(cardNumber) ==
    IsPure(cardNumber) /\ Len(cardNumber) \in 13..19

\* IntelligenceExtractor.validateLuhn
validateLuhn(cardNumber) ==
    /\ IsPure(cardNumber) /\ Len(cardNumber) \in 13..19
    /\ LuhnSum(cardNumber, Len(cardNumber), FALSE) % 10 = 0

\* the account candidates: /\b\d{9,18}\b/ (the other patterns need a keyword
\* that is not in the text)
bankAccountMatches(text) ==
    IF IsPure(text.token) /\ Len(text.token) \in 9..18 THEN <<text.token>> ELSE <<>>

\* extractBankAccounts
extractBankAccounts(text) ==
    Dedup([i \in 1..Len(bankAccountMatches(text)) |->
              maskSensitiveData(StripSeparators(bankAccountMatches(text)[i]), "account")])

\* /(?:\+91[\s-]?)?[6-9]\d{9}\b/g in a run of digits: its last ten digits
phoneMatchesAtEnd(token) ==
    IF IsPure(token) /\ Len(token) >= 10 /\ token[Len(token) - 9] \in 6..9
    THEN <<SubSeq(token, Len(token) - 9, Len(token))>>
    ELSE <<>>

RECURSIVE phoneMatchesFrom(_, _)
\* /(?:\+91)?[\s-]?[6-9]\d{2}[\s-]?\d{3}[\s-]?\d{4}/g in a run of digits from
\* index i: leftmost matches that do not overlap
phoneMatchesFrom(token, i) ==
    IF i + 9 > Len(token) THEN <<>>
    ELSE IF token[i] \in 6..9
         THEN <<SubSeq(token, i, i + 9)>> \o phoneMatchesFrom(token, i + 10)
         ELSE phoneMatchesFrom(token, i + 1)

\* extractPhoneNumbers: every match is ten digits from 6..9 on, so it passes
\* the validation and gets the +91 prefix
extractPhoneNumbers(text) ==
    LET matches == IF IsPure(text.token)
                   THEN phoneMatchesAtEnd(text.token) \o phoneMatchesFrom(text.token, 1)
                   ELSE <<>>
    IN Dedup([i \in 1..Len(matches) |-> <<PlusSign, 9, 1>> \o matches[i]])

IsGrouped(token) ==
    /\ Len(token) = 19
    /\ \A i \in 1..19 : IF i \in {5, 10, 15} THEN token[i] = Dash ELSE IsDigit(token[i])

\* the card candidates: the sixteen-digit pattern, then, after "card ", up to
\* nineteen characters of the token
cardMatches(text) ==
    (IF (IsPure(text.token) /\ Len(text.token) = 16) \/ IsGrouped(text.token)
     THEN <<text.token>> ELSE <<>>)
    \o (IF text.card /\ Len(text.token) >= 12
        THEN <<SubSeq(text.token, 1, Min(Len(text.token), 19))>> ELSE <<>>)

\* the cards among the stripped candidates, masked
MaskedCards(candidates) ==
    LET valid == SelectSeq(candidates, validateLuhn)
    IN [i \in 1..Len(valid) |-> maskSensitiveData(valid[i], "card")]

\* extractCardNumbers
extractCardNumbers(text) ==
    LET matches == cardMatches(text)
    IN Dedup(MaskedCards([i \in 1..Len(matches) |-> StripSeparators(matches[i])]))

\* runs of MinRun..MaxRun digits, each digit 1 or 9
ShortTokens == UNION {[1..n -> {1, 9}] : n \in MinRun..MaxRun}

\* 4 0 ... 0 followed by FreeDigits digits, n digits in all
LongToken(n, free) ==
    [i \in 1..n |-> IF i = 1 THEN 4
                    ELSE IF i <= n - FreeDigits THEN 0
                    ELSE free[i - (n - FreeDigits)]]

LongTokens ==
    {LongToken(n, free) : n \in MinLong..MaxLong, free \in [1..FreeDigits -> 0..9]}

\* dddd-dddd-dddd-dddd
Grouped(digits) ==
    SubSeq(digits, 1, 4) \o <<Dash>> \o SubSeq(digits, 5, 8) \o <<Dash>>
    \o SubSeq(digits, 9, 12) \o <<Dash>> \o SubSeq(digits, 13, 16)

GroupedTokens == {Grouped(LongToken(16, free)) : free \in [1..FreeDigits -> 0..9]}

ExtractInputs == [card : BOOLEAN, token : ShortTokens \cup LongTokens \cup GroupedTokens]

InitExtract ==
    /\ NoServer
    /\ input \in ExtractInputs
    /\ out = Nothing

\* the number categories of extract(messages) for one scammer message
ExtractNumbers ==
    /\ out' = [bankAccounts |-> extractBankAccounts(input),
               phoneNumbers |-> extractPhoneNumbers(input),
               cardNumbers |-> extractCardNumbers(input)]
    /\ UNCHANGED <<input, server>>

NextExtract == ExtractNumbers

SpecExtract == InitExtract /\ [][NextExtract]_vars

Extracted == out # Nothing

\* xs occurs in ys as a run of consecutive characters
OccursIn(xs, ys) ==
    \E i \in 0..(Len(ys) - Len(xs)) : SubSeq(ys, i + 1, i + Len(xs)) = xs

DigitsOf(chars) == SelectSeq(chars, IsDigit)

(* C17: every value recorded under bankAccounts or cardNumbers shows only  *)
(* the last four digits of the number, and the full digits of a number     *)
(* recorded there appear in no value of any category of the extracted      *)
(* intelligence, phoneNumbers included.                                    *)
C17_FullNumberNeverExposed ==
    Extracted =>
        LET original == DigitsOf(input.token)
            recorded == out.bankAccounts # <<>> \/ out.cardNumbers # <<>>
        IN /\ \A i \in 1..Len(out.bankAccounts) :
                  DigitsOf(out.bankAccounts[i]) = Last4(original)
           /\ \A i \in 1..Len(out.cardNumbers) :
                  DigitsOf(out.cardNumbers[i]) = Last4(original)
           /\ recorded =>
                  \A c \in {"bankAccounts", "phoneNumbers", "cardNumbers"} :
                      \A i \in 1..Len(out[c]) : ~OccursIn(original, out[c][i])

RECURSIVE ClaimedLuhnTotal(_, _)
\* the digits counted from the right, every second one doubled and reduced
ClaimedLuhnTotal(digits, k) ==
    IF k > Len(digits) THEN 0
    ELSE LET d == digits[Len(digits) + 1 - k]
             term == IF k % 2 = 1 THEN d
                     ELSE IF 2 * d > 9 THEN 2 * d - 9 ELSE 2 * d
         IN term + ClaimedLuhnTotal(digits, k + 1)

(* C19: a card number is recorded only for a candidate that, stripped of   *)
(* spaces and dashes, has 13 to 19 digits and passes the Luhn checksum     *)
(* (every second digit from the right doubled, 9 subtracted from results   *)
(* above 9, total divisible by 10); a sixteen-digit candidate that passes  *)
(* is recorded, masked.                                                    *)
C19_CardsPassLuhn ==
    Extracted =>
        LET matches == cardMatches(input)
            candidates == [j \in 1..Len(matches) |-> DigitsOf(matches[j])]
            Passes(digits) == /\ Len(digits) \in 13..19
                              /\ ClaimedLuhnTotal(digits, 1) % 10 = 0
        IN \A i \in 1..Len(out.cardNumbers) :
               \E j \in 1..Len(candidates) :
                   /\ Passes(candidates[j])
                   /\ out.cardNumbers[i] =
                          Mask4 \o Mask4 \o Mask4 \o Last4(candidates[j])

\* a card written in groups joined by dashes has been recorded
C19_Witness ==
    /\ Extracted
    /\ IsGrouped(input.token)
    /\ out.cardNumbers # <<>>

----------------------------------------------------------------------------
(* The intent label.  A text is a sequence of lower-case words joined by   *)
(* single spaces.                                                          *)

\* number of words of a text
MaxWords == 3

IntentKeywords ==
    {"bank", "block", "suspend", "upi", "payment", "otp", "password", "pin",
     "win", "prize", "lottery", "job", "employment", "kyc", "verify", "update"}

\* the keywords, the words of "work from home", a word that holds none of
\* them, a word that holds "pin" inside it, and a link
Vocabulary == IntentKeywords \cup {"work", "from", "home", "hello", "shopping", "www.x.in"}

IntentTexts == UNION {[1..n -> Vocabulary] : n \in 1..MaxWords}

\* the keyword occurs inside the word
HasSubstring(word, keyword) ==
    \/ word = keyword
    \/ word = "shopping" /\ keyword = "pin"

\* text_lower.includes(term)
includes(text, term) ==
    IF term = "work from home"
    THEN \E i \in 1..(Len(text) - 2) :
             text[i] = "work" /\ text[i + 1] = "from" /\ text[i + 2] = "home"
    ELSE \E i \in 1..Len(text) : HasSubstring(text[i], term)

\* the indicators of detectByPatterns that depend on the words above
detectByPatterns(text) ==
    (IF includes(text, "block") \/ includes(text, "suspend")
     THEN {"threat_language"} ELSE {})
    \cup (IF \E i \in 1..Len(text) : text[i] = "www.x.in"
          THEN {"suspicious_urls"} ELSE {})

\* variant of determineIntent: the otp/password/pin check comes before the
\* upi/payment check
determineIntentPhishingFirst(text, indicators) ==
    IF includes(text, "bank") /\ (includes(text, "block") \/ includes(text, "suspend"))
    THEN "banking_fraud"
    ELSE IF includes(text, "otp") \/ includes(text, "password") \/ includes(text, "pin")
    THEN "phishing"
    ELSE IF includes(text, "upi") \/ includes(text, "payment")
    THEN "upi_fraud"
    ELSE IF includes(text, "win") \/ includes(text, "prize") \/ includes(text, "lottery")
    THEN "lottery_scam"
    ELSE IF includes(text, "job") \/ includes(text, "employment")
            \/ includes(text, "work from home")
    THEN "job_scam"
    ELSE IF includes(text, "kyc") \/ includes(text, "verify") \/ includes(text, "update")
    THEN "kyc_fraud"
    ELSE IF "suspicious_urls" \in indicators
    THEN "phishing"
    ELSE "suspicious"

\* ScamDetectionEngine.determineIntent
determineIntent(text, indicators) ==
    IF includes(text, "bank") /\ (includes(text, "block") \/ includes(text, "suspend"))
    THEN "banking_fraud"
    ELSE IF includes(text, "upi") \/ includes(text, "payment")
    THEN "upi_fraud"
    ELSE IF includes(text, "otp") \/ includes(text, "password") \/ includes(text, "pin")
    THEN "phishing"
    ELSE IF includes(text, "win") \/ includes(text, "prize") \/ includes(text, "lottery")
    THEN "lottery_scam"
    ELSE IF includes(text, "job") \/ includes(text, "employment")
            \/ includes(text, "work from home")
    THEN "job_scam"
    ELSE IF includes(text, "kyc") \/ includes(text, "verify") \/ includes(text, "update")
    THEN "kyc_fraud"
    ELSE IF "suspicious_urls" \in indicators
    THEN "phishing"
    ELSE "suspicious"

InitIntent ==
    /\ NoServer
    /\ input \in IntentTexts
    /\ out = Nothing

\* analyze(text): the indicators of the text, then its intent
Analyze ==
    /\ out' = [indicators |-> detectByPatterns(input),
               intent |-> determineIntent(input, detectByPatterns(input))]
    /\ UNCHANGED <<input, server>>

NextIntent == Analyze

SpecIntent == InitIntent /\ [][NextIntent]_vars

Analyzed == out # Nothing

\* some keyword of the set occurs in the analyzed text
HasAny(keywords) == \E k \in keywords : includes(input, k)

\* the rules of the label in their order, with the given job keywords
IntentRules(jobKeywords) ==
    << [when |-> HasAny({"bank"}) /\ HasAny({"block", "suspend"}),
        label |-> "banking_fraud"],
       [when |-> HasAny({"upi", "payment"}), label |-> "upi_fraud"],
       [when |-> HasAny({"otp", "password", "pin"}), label |-> "phishing"],
       [when |-> HasAny({"win", "prize", "lottery"}), label |-> "lottery_scam"],
       [when |-> HasAny(jobKeywords), label |-> "job_scam"],
       [when |-> HasAny({"kyc", "verify", "update"}), label |-> "kyc_fraud"],
       [when |-> "suspicious_urls" \in out.indicators, label |-> "phishing"] >>

\* the label of the first rule that matches, "suspicious" when none does
FirstMatch(rules) ==
    LET hits == {i \in 1..Len(rules) : rules[i].when}
    IN IF hits = {} THEN "suspicious"
       ELSE rules[CHOOSE i \in hits : \A j \in hits : i <= j].label

----------------------------------------------------------------------------
(* The scam-likelihood scorer: analyze runs the four detectors one after   *)
(* the other and combines their scores.  A detector's score is in          *)
(* hundredths, the statistical classifier's value in ten-thousandths, the  *)
(* combined score in millionths and the reported confidence, which has     *)
(* four decimals, in ten-thousandths.                                      *)

\* occurrences of one kind of term in a text
MaxHits == 2
\* imperative verbs in a text
MaxImperatives == 6
\* messages of the conversation history handed to analyze
MaxHistory == 8

\* this.confidenceThreshold = 0.65, in millionths
confidenceThreshold == 650000

\* sums of the weights of the configured rules that match a text, in hundredths
PatternWeights == {0, 35}

\* what the text holds for the pattern detector
PatternHits ==
    [weights : PatternWeights, urgency : 0..MaxHits, threat : 0..MaxHits,
     financial : 0..MaxHits, urls : 0..MaxHits, phones : 0..MaxHits]

\* the score of detectByPatterns
detectByPatternsScore(hits) ==
    Min(hits.weights + hits.urgency * 15 + hits.threat * 20 + hits.financial * 10
        + hits.urls * 25 + hits.phones * 15, 100)

\* what the text holds for the linguistic detector
NlpFindings ==
    [imperatives : 0..MaxImperatives, negative : BOOLEAN, personal : BOOLEAN,
     choppy : BOOLEAN]

\* variant of detectByNLP: the sum is not clamped to 1
detectByNLPUnclamped(found) ==
    found.imperatives * 10 + (IF found.negative THEN 15 ELSE 0)
    + (IF found.personal THEN 20 ELSE 0) + (IF found.choppy THEN 10 ELSE 0)

\* the score of detectByNLP
detectByNLP(found) ==
    Min(found.imperatives * 10 + (IF found.negative THEN 15 ELSE 0)
        + (IF found.personal THEN 20 ELSE 0) + (IF found.choppy THEN 10 ELSE 0), 100)

\* values of the classifier for the label "scam", in ten-thousandths
ClassifierValues == {1, 2500, 5999, 6000, 10000}

\* the classifier is not initialized, has no "scam" label or throws, or it
\* gives a value
Classifications ==
    [kind : {"uninitialized", "nolabel", "throws"}, value : {0}]
    \cup [kind : {"value"}, value : ClassifierValues]

\* the score of detectByML
detectByML(classification) ==
    IF classification.kind = "value" THEN classification.value ELSE 0

\* the history: its length, how many of its messages carry scamDetected,
\* and whether more than two escalation terms occur in it and the text
Histories ==
    {h \in [length : 0..MaxHistory, flags : 0..MaxHistory, escalation : BOOLEAN] :
        h.flags <= h.length}

\* the score of analyzeContext
analyzeContext(history) ==
    IF history.length = 0 THEN 0
    ELSE Min(history.flags * 10 + (IF history.escalation THEN 20 ELSE 0)
             + (IF history.length > 5 THEN 10 ELSE 0), 100)

\* the score of calculateCombinedScore, in millionths
calculateCombinedScore(results) ==
    Min(results.pattern * 3500 + results.nlp * 2500 + results.ml * 25
        + results.context * 1500, 1000000)

\* confidence.toFixed(4): millionths to the nearest ten-thousandth
ToFixed4(score) == (score + 50) \div 100

\* ScamDetectionEngine.createResult
createResult(isScam, confidence) ==
    [isScam |-> isScam, confidence |-> ToFixed4(confidence)]

NoResult == [isScam |-> FALSE, confidence |-> -1]

InitDetect ==
    /\ NoServer
    /\ input = "text"
    /\ out = Nothing

PatternStage ==
    /\ out = Nothing
    /\ \E hits \in PatternHits :
           out' = [stage |-> "pattern", pattern |-> detectByPatternsScore(hits),
                   nlp |-> 0, ml |-> 0, context |-> 0, score |-> 0,
                   result |-> NoResult]
    /\ UNCHANGED <<input, server>>

NlpStage ==
    /\ out # Nothing
    /\ out.stage = "pattern"
    /\ \E found \in NlpFindings :
           out' = [out EXCEPT !.stage = "nlp", !.nlp = detectByNLP(found)]
    /\ UNCHANGED <<input, server>>

MlStage ==
    /\ out # Nothing
    /\ out.stage = "nlp"
    /\ \E classification \in Classifications :
           out' = [out EXCEPT !.stage = "ml", !.ml = detectByML(classification)]
    /\ UNCHANGED <<input, server>>

ContextStage ==
    /\ out # Nothing
    /\ out.stage = "ml"
    /\ \E history \in Histories :
           out' = [out EXCEPT !.stage = "context", !.context = analyzeContext(history)]
    /\ UNCHANGED <<input, server>>

\* analyze, lines 64-89: the combined score, the flag and the result
CombineStage ==
    /\ out # Nothing
    /\ out.stage = "context"
    /\ LET combinedScore == calculateCombinedScore(out)
           isScam == combinedScore >= confidenceThreshold
       IN out' = [out EXCEPT !.stage = "done", !.score = combinedScore,
                             !.result = createResult(isScam, combinedScore)]
    /\ UNCHANGED <<input, server>>

NextDetect ==
    \/ PatternStage
    \/ NlpStage
    \/ MlStage
    \/ ContextStage
    \/ CombineStage

SpecDetect == InitDetect /\ [][NextDetect]_vars

AnalysisDone == out # Nothing /\ out.stage = "done"

(* C21: in every result of analyze, isScam is true exactly when the        *)
(* confidence reported in that result is at least 0.65.                    *)
C21_ScamIffConfidenceAtThreshold ==
    AnalysisDone => (out.result.isScam <=> out.result.confidence >= 6500)

(* C22: every detector's score is within [0,1], the combined score is      *)
(* 0.35 x pattern + 0.25 x linguistic + 0.25 x statistical + 0.15 x        *)
(* context, with the same weights when the statistical score is 0, and it  *)
(* is within [0,1], as is the confidence reported.                         *)
C22_ScoresWithinUnit ==
    AnalysisDone =>
        /\ out.pattern \in 0..100
        /\ out.nlp \in 0..100
        /\ out.ml \in 0..10000
        /\ out.context \in 0..100
        /\ out.score = 3500 * out.pattern + 2500 * out.nlp + 25 * out.ml
                       + 1500 * out.context
        /\ out.score \in 0..1000000
        /\ out.result.confidence \in 0..10000

\* the statistical detector gave 0 and two other detectors are at their
\* maximum
C22_Witness ==
    /\ AnalysisDone
    /\ out.ml = 0
    /\ out.pattern = 100
    /\ out.nlp = 100
    /\ out.score = 600000 + 1500 * out.context

----------------------------------------------------------------------------
(* Degradation: analyze, extract and generateResponse catch what is thrown *)
(* inside them.                                                            *)

\* a value that is not a string
NotAString == "<object>"

\* arguments of analyze
TextArgs == {"", "hi", NotAString}

LowScores == [pattern |-> 0, nlp |-> 0, ml |-> 0, context |-> 0]
HighScores == [pattern |-> 100, nlp |-> 60, ml |-> 6000, context |-> 0]

\* what happens inside the try block of analyze: a detector throws, or the
\* detectors give these scores
DetectorRuns ==
    {[throws |-> TRUE, scores |-> LowScores]}
    \cup [throws : {FALSE}, scores : {LowScores, HighScores}]

\* variant of analyze without its catch block: what a detector throws leaves
\* analyze
analyzeUncaught(text, run) ==
    IF text = "" \/ text = NotAString
    THEN [thrown |-> FALSE, result |-> createResult(FALSE, 0)]
    ELSE IF run.throws THEN [thrown |-> TRUE, result |-> NoResult]
    ELSE LET combinedScore == calculateCombinedScore(run.scores)
         IN [thrown |-> FALSE,
             result |-> createResult(combinedScore >= confidenceThreshold, combinedScore)]

\* ScamDetectionEngine.analyze: the result, and whether analyze threw
analyze(text, run) ==
    IF text = "" \/ text = NotAString
    THEN [thrown |-> FALSE, result |-> createResult(FALSE, 0)]
    ELSE IF run.throws THEN [thrown |-> FALSE, result |-> createResult(FALSE, 0)]
    ELSE LET combinedScore == calculateCombinedScore(run.scores)
         IN [thrown |-> FALSE,
             result |-> createResult(combinedScore >= confidenceThreshold, combinedScore)]

\* IntelligenceExtractor.extract with its catch block: the intelligence, and
\* whether extract threw
extractCaught(messages, throws) ==
    [thrown |-> FALSE,
     intelligence |-> IF throws THEN getEmptyIntelligence ELSE extract(messages)]

\* AIAgent.getFallbackResponse picks one of these
Fallbacks == {"fallback1", "fallback2", "fallback3", "fallback4", "fallback5"}

\* AIAgent.determinePhase
determinePhase(messageCount) ==
    IF messageCount <= 2 THEN "initial"
    ELSE IF messageCount <= 6 THEN "middle"
    ELSE "late"

\* the context getOrCreateContext stores for a new key
\* trustLevel is in hundredths; no lastActivity is stored
NewContext == [messageCount |-> 0, trustLevel |-> 30]

\* AIAgent.extractSessionId: 'session_' + Date.now()
extractSessionId(conversationHistory, clock) == clock

\* AIAgent.getOrCreateContext: the memory afterwards
getOrCreateContext(memory, sessionId) ==
    IF sessionId \in DOMAIN memory THEN memory
    ELSE [k \in (DOMAIN memory) \cup {sessionId} |->
              IF k = sessionId THEN NewContext ELSE memory[k]]

\* what the random choices and the templates give: buildResponse throws or
\* not, and the fallback that is picked
\* and, when buildResponse returns, whether its response holds a '?'
GenerateRuns ==
    {gen \in [buildThrows : BOOLEAN, pick : Fallbacks, question : BOOLEAN] :
        gen.buildThrows => ~gen.question}

\* cleanupOldContexts: 30 * 60 * 1000 milliseconds
maxAge == 1800000

\* AIAgent.cleanupOldContexts: the memory afterwards.  No context has a
\* lastActivity, and now - undefined > maxAge is false
cleanupOldContexts(memory, clock) ==
    [k \in {x \in DOMAIN memory :
                ~("lastActivity" \in DOMAIN memory[x]
                  /\ clock - memory[x].lastActivity > maxAge)} |-> memory[k]]

\* AIAgent.updateContext(context, message, response) with message a string,
\* as the handler passes it: the trust level goes down for a question, then
\* message.text.includes throws, before the clamp and before
\* cleanupOldContexts
updateContext(memory, sessionId, question) ==
    [thrown |-> TRUE,
     memory |-> IF question
                THEN [memory EXCEPT ![sessionId].trustLevel = @ - 5]
                ELSE memory]

\* AIAgent.generateResponse.  The handler passes the text of the message as
\* params.message, so updateContext, which reads message.text.includes, throws
\* on every call that gets that far: the reply is always the fallback.
\* determined is the phase line 73 computed, memory the conversation memory
\* afterwards, thrown whether generateResponse threw
generateResponse(memory, conversationHistory, clock, gen) ==
    LET sessionId == extractSessionId(conversationHistory, clock)
        created == getOrCreateContext(memory, sessionId)
        phase == determinePhase(created[sessionId].messageCount)
        built == [created EXCEPT ![sessionId].messageCount = @ + 1]
        updated == updateContext(built, sessionId, gen.question)
    IN [thrown |-> FALSE, reply |-> gen.pick, strategy |-> "fallback",
        phase |-> "error", confidence |-> 0, context |-> sessionId,
        determined |-> phase,
        memory |-> IF gen.buildThrows THEN created ELSE updated.memory]

\* process-message is accepted here while the log holds fewer messages than this
MaxFaultLog == 3
\* Date.now() in milliseconds stops here
MaxMillis == 1

FaultMessages == {PlainMessage, [sender |-> "scammer", text |-> "upi"]}

\* the response of the handler's catch block
ErrorTurn(sess, memory) ==
    [session |-> sess, memory |-> memory, status |-> 500, replied |-> FALSE,
     reply |-> "", result |-> NoResult]

\* POST /process-message from session.addMessage to the response: the session
\* and the conversation memory it leaves, and what it answers
HandleTurn(sess, memory, clock, m, run, gen, extractThrows) ==
    LET s1 == addMessage(sess, m)
        detection == analyze(m.text, run)
        s2 == IF detection.result.isScam /\ ~s1.isAgentActive
              THEN activateAgent(s1) ELSE s1
        agent == generateResponse(memory, s2.messages, clock, gen)
        s3 == addMessage(s2, [sender |-> "user", text |-> agent.reply])
        extracted == extractCaught(s3.messages, extractThrows)
        s4 == updateIntelligence(s3, extracted.intelligence)
    IN IF detection.thrown THEN ErrorTurn(s1, memory)
       ELSE IF ~s2.isAgentActive
       THEN [session |-> s2, memory |-> memory, status |-> 200, replied |-> FALSE,
             reply |-> "", result |-> detection.result]
       ELSE IF agent.thrown THEN ErrorTurn(s2, agent.memory)
       ELSE IF extracted.thrown THEN ErrorTurn(s3, agent.memory)
       ELSE [session |-> s4, memory |-> agent.memory, status |-> 200,
             replied |-> TRUE, reply |-> agent.reply, result |-> detection.result]

\* POST /process-message with what happens inside the three components; input
\* keeps it and the session as it was
FaultyTurn(s, m, run, gen, extractThrows) ==
    LET s0 == IF s \in DOMAIN sessions THEN sessions[s] ELSE NewSession
        rep == IF s \in DOMAIN sessions THEN reports
               ELSE [reports EXCEPT ![s] = NoReport]
        turn == HandleTurn(s0, conversationMemory, now, m, run, gen, extractThrows)
        ends == turn.status = 200 /\ Terminates(turn.session)
    IN /\ Len(s0.messages) < MaxFaultLog
       /\ sessions' = Put(sessions, s, turn.session)
       /\ conversationMemory' = turn.memory
       /\ input' = [op |-> "turn", sid |-> s, before |-> s0, run |-> run, gen |-> gen,
                    extractThrows |-> extractThrows]
       /\ UNCHANGED <<timers, sweepDue, now, stamps>>
       /\ IF ends
          THEN /\ FreeSlots(MaxInflight) # {}
               /\ inflight' = Put(inflight, FirstFree(MaxInflight), Request("msg", s))
               /\ reports' = Posted(rep, s)
               /\ out' = Nothing
               /\ episode' = Joined(s, s0, m, turn.result.isScam)
          ELSE /\ reports' = rep
               /\ out' = [response |-> Response("msg", s, turn.status, turn.replied,
                                                turn.replied, NoCallback),
                          callback |-> NoCallback,
                          reply |-> turn.reply,
                          result |-> turn.result]
               /\ episode' = NoEpisode
               /\ UNCHANGED inflight

\* analyze called with any argument, before the first request
AnalyzeCall(text, run) ==
    /\ sessions = << >>
    /\ input' = [op |-> "analyze", text |-> text, run |-> run]
    /\ out' = [response |-> NoResponse, callback |-> NoCallback, reply |-> "",
               result |-> analyze(text, run).result,
               thrown |-> analyze(text, run).thrown]
    /\ UNCHANGED server

\* a millisecond passes
Millisecond ==
    /\ now < MaxMillis
    /\ now' = now + 1
    /\ UNCHANGED <<sessions, timers, sweepDue, inflight, reports, out, episode, input,
                   stamps, conversationMemory>>

\* the responses buildResponse returns hold no '?'
FaultGens == {gen \in GenerateRuns : ~gen.question}

NextFaults ==
    \/ \E s \in SessionIds, m \in FaultMessages, run \in DetectorRuns,
          gen \in FaultGens, extractThrows \in BOOLEAN :
           FaultyTurn(s, m, run, gen, extractThrows)
    \/ \E text \in TextArgs, run \in DetectorRuns : AnalyzeCall(text, run)
    \/ Millisecond

\* no call yet
NoCall == [op |-> "none"]

InitFaults ==
    /\ NoServer
    /\ input = NoCall
    /\ out = Nothing

SpecFaults == InitFaults /\ [][NextFaults]_vars

\* the step is a process-message turn that answered
TurnAnswered == input' # input /\ input'.op = "turn" /\ out' # Nothing

(* C23: a turn in which analyze, extract or generateResponse meets an      *)
(* error still answers with a success response: a failed analysis gives a  *)
(* non-scam result with confidence 0, as does analyze of an empty or       *)
(* non-string text; a failed extraction leaves the session's intelligence  *)
(* as it was; and the reply of a failed generation is one of the fixed     *)
(* fallbacks.                                                              *)
C23_ErrorsDegrade ==
    [][/\ TurnAnswered =>
           /\ out'.response.status = 200
           /\ input'.run.throws => out'.result = [isScam |-> FALSE, confidence |-> 0]
           /\ (out'.response.replied /\ input'.extractThrows) =>
                  sessions'[input'.sid].intelligence = input'.before.intelligence
           /\ out'.response.replied => out'.reply \in Fallbacks
       /\ (input' # input /\ input'.op = "analyze") =>
           /\ ~out'.thrown
           /\ (input'.run.throws \/ input'.text \in {"", NotAString}) =>
                  out'.result = [isScam |-> FALSE, confidence |-> 0]]_vars

\* an engaged session that holds intelligence has answered a turn in which the
\* analysis and the extraction failed
C23_Witness ==
    /\ input.op = "turn"
    /\ input.run.throws
    /\ input.extractThrows
    /\ input.before.intelligence["upiIds"] # <<>>
    /\ out # Nothing
    /\ out.response.status = 200
    /\ out.response.replied

----------------------------------------------------------------------------
(* Requests to POST /process-message through the middleware *)

\* the x-api-key header: missing, not among the allowed keys, or allowed
ApiKeys == {"missing", "unknown", "allowed"}


\* Object.keys(req.body).length === 0
IsEmptyBody(body) ==
    body.sessionId = "absent" /\ body.message = "absent" /\ ~body.otherKeys

\* a JSON body: the two required fields are absent, malformed or well-formed,
\* and the body may hold other keys (followed here where both are absent)
Bodies ==
    {body \in [sessionId : {"absent", "malformed", "ok"},
               message : {"absent", "malformed", "ok"},
               otherKeys : BOOLEAN] :
        body.otherKeys => IsEmptyBody([body EXCEPT !.otherKeys = FALSE])}

\* messageRequestSchema.validate(req.body) reports an error
SchemaError(body) == body.sessionId # "ok" \/ body.message # "ok"

\* authenticateApiKey outside production: the status it answers, 0 for next()
authenticateApiKey(apiKey) == IF apiKey = "allowed" THEN 0 ELSE 401

\* validateMessageRequest: the status it answers, 0 for next()
validateMessageRequest(body) ==
    IF IsEmptyBody(body) THEN 200
    ELSE IF SchemaError(body) THEN 400
    ELSE 0

\* what a middleware answers: a status, and an errors list with status 400
Answered(status) ==
    [response |-> Response("msg", "none", status, FALSE, FALSE, NoCallback),
     callback |-> NoCallback,
     errors |-> status = 400]

\* POST /process-message: authenticateApiKey, validateMessageRequest, handler
PostProcessMessage(s, apiKey, body, isScam) ==
    /\ input' = [op |-> "post", apiKey |-> apiKey, body |-> body]
    /\ UNCHANGED <<now, stamps, conversationMemory>>
    /\ IF authenticateApiKey(apiKey) # 0
       THEN /\ out' = Answered(authenticateApiKey(apiKey))
            /\ UNCHANGED <<sessions, timers, sweepDue, inflight, reports, episode>>
       ELSE IF validateMessageRequest(body) # 0
       THEN /\ out' = Answered(validateMessageRequest(body))
            /\ UNCHANGED <<sessions, timers, sweepDue, inflight, reports, episode>>
       ELSE ProcessMessage(s, PlainMessage, isScam, MaxInflight)

NextValidate ==
    \/ \E s \in SessionIds, apiKey \in ApiKeys, body \in Bodies, isScam \in BOOLEAN :
           PostProcessMessage(s, apiKey, body, isScam)
    \/ \E k \in 1..MaxInflight : CollectorAccepts(k) /\ UNCHANGED aux
    \/ \E k \in 1..MaxInflight : CollectorFails(k) /\ UNCHANGED aux

InitValidate ==
    /\ NoServer
    /\ input = NoCall
    /\ out = Nothing

SpecValidate == InitValidate /\ [][NextValidate]_vars

(* C24: a process-message request of an authenticated caller whose body    *)
(* lacks a required field, the empty body {} included, is answered 400     *)
(* with an errors list, and the session table is left as it was.           *)
C24_MissingFieldsRejected ==
    [][(/\ input' # input
        /\ input'.apiKey = "allowed"
        /\ (input'.body.sessionId = "absent" \/ input'.body.message = "absent"))
       => (/\ out'.response.status = 400
           /\ out'.errors
           /\ sessions' = sessions)]_vars

----------------------------------------------------------------------------
(* Requests that name a session: status and explicit end *)

\* identifiers a request may name: those of SessionIds and one that no
\* process-message request ever names
RequestIds == SessionIds \cup {"s2"}

\* what GET /session/:sessionId shows of a session
Projection(sess) ==
    [isAgentActive |-> sess.isAgentActive,
     messageCount |-> getMessageCount(sess),
     scamDetected |-> sess.scamDetected,
     intelligence |-> sess.intelligence]

\* the answer of GET /session/:sessionId for a stored session
Shown(s, sess) ==
    [response |-> Response("status", s, 200, sess.scamDetected, FALSE, NoCallback),
     callback |-> NoCallback,
     session |-> Projection(sess)]

\* variant of SessionStatus: a session that is not stored is created and shown
SessionStatusCreates(s) ==
    /\ input' = [op |-> "status", sid |-> s]
    /\ sessions' = IF s \in DOMAIN sessions THEN sessions ELSE Put(sessions, s, NewSession)
    /\ out' = Shown(s, sessions'[s])
    /\ UNCHANGED <<timers, sweepDue, inflight, reports, episode, now, stamps,
                   conversationMemory>>

\* GET /session/:sessionId
SessionStatus(s) ==
    /\ input' = [op |-> "status", sid |-> s]
    /\ out' = IF s \in DOMAIN sessions THEN Shown(s, sessions[s])
              ELSE [Nothing EXCEPT !.response =
                       Response("status", s, 404, FALSE, FALSE, NoCallback)]
    /\ UNCHANGED server

\* POST /session/:sessionId/end; input keeps the identifier
EndRequest(s) ==
    /\ EndSession(s, MaxInflight)
    /\ input' = [op |-> "end", sid |-> s]
    /\ UNCHANGED <<now, stamps, conversationMemory>>

\* process-message is accepted here while the log holds fewer messages than this
MaxNamedLog == 4

\* POST /process-message; input keeps the identifier
MessageRequest(s, isScam) ==
    /\ Len(Log(s)) < MaxNamedLog
    /\ ProcessMessage(s, PlainMessage, isScam, MaxInflight)
    /\ input' = [op |-> "msg", sid |-> s]
    /\ UNCHANGED <<now, stamps, conversationMemory>>

NextNamed ==
    \/ \E s \in SessionIds, isScam \in BOOLEAN : MessageRequest(s, isScam)
    \/ \E s \in RequestIds : SessionStatus(s)
    \/ \E s \in RequestIds : EndRequest(s)
    \/ \E k \in 1..MaxInflight : CollectorAccepts(k) /\ UNCHANGED aux
    \/ \E k \in 1..MaxInflight : CollectorFails(k) /\ UNCHANGED aux

SpecNamed == InitValidate /\ [][NextNamed]_vars

(* C25: a session-status request or an explicit end request that names an *)
(* identifier with no session in the store is answered 404 and changes     *)
(* nothing: no session is created, no callback is sent, and every stored   *)
(* session is as it was.                                                   *)
C25_UnknownSessionNotFound ==
    [][(/\ input' # input
        /\ input'.op \in {"status", "end"}
        /\ input'.sid \notin DOMAIN sessions)
       => (/\ out'.response.status = 404
           /\ sessions' = sessions
           /\ inflight' = inflight
           /\ reports' = reports
           /\ timers' = timers)]_vars

\* an end request for an unknown identifier was answered 404 while another
\* session is stored
C25_Witness ==
    /\ input.op = "end"
    /\ input.sid \notin DOMAIN sessions
    /\ out.response.status = 404
    /\ DOMAIN sessions # {}

----------------------------------------------------------------------------
(* POST /batch-process: every text of the request goes through analyze     *)
(* with an empty history.                                                  *)

\* a batch request holds at most this many messages
MaxBatch == 2

\* the history the batch handler passes to analyze: []
EmptyHistory == [length |-> 0, flags |-> 0, escalation |-> FALSE]

\* what the three detectors of the text give, or a detector throws
TextRuns ==
    [throws : {FALSE}, pattern : {0, 100}, nlp : {60}, ml : {6000}]
    \cup [throws : {TRUE}, pattern : {0}, nlp : {0}, ml : {0}]

\* the messages of a batch request: an id, a text and what the detectors
\* find in the text
BatchMessages == [id : {"1", "2"}, text : {"", "hi"}, run : TextRuns]

BatchRequests == UNION {[1..n -> BatchMessages] : n \in 0..MaxBatch}

\* detectionEngine.analyze(msg.text, []) and the entry built from it
BatchEntry(msg) ==
    LET scores == [pattern |-> msg.run.pattern, nlp |-> msg.run.nlp,
                   ml |-> msg.run.ml, context |-> analyzeContext(EmptyHistory)]
        detectionResult ==
            analyze(msg.text, [throws |-> msg.run.throws, scores |-> scores]).result
    IN [messageId |-> msg.id, scamDetected |-> detectionResult.isScam,
        confidence |-> detectionResult.confidence]

\* variant of the handler: every entry is built from the first message
BatchProcessFirstOnly(messages) ==
    /\ input' = [op |-> "batch", messages |-> messages]
    /\ out' = IF Len(messages) = 0
              THEN [response |-> Response("batch", "none", 400, FALSE, FALSE, NoCallback),
                    callback |-> NoCallback, results |-> << >>]
              ELSE [response |-> Response("batch", "none", 200, FALSE, FALSE, NoCallback),
                    callback |-> NoCallback,
                    results |-> [i \in 1..Len(messages) |->
                                     [BatchEntry(messages[1]) EXCEPT
                                          !.messageId = messages[i].id]]]
    /\ UNCHANGED server

\* POST /batch-process
BatchProcess(messages) ==
    /\ input' = [op |-> "batch", messages |-> messages]
    /\ out' = IF Len(messages) = 0
              THEN [response |-> Response("batch", "none", 400, FALSE, FALSE, NoCallback),
                    callback |-> NoCallback, results |-> << >>]
              ELSE [response |-> Response("batch", "none", 200, FALSE, FALSE, NoCallback),
                    callback |-> NoCallback,
                    results |-> [i \in 1..Len(messages) |-> BatchEntry(messages[i])]]
    /\ UNCHANGED server

\* process-message turns between the batch requests
BatchRuns == {run \in DetectorRuns : ~run.throws}
BatchGens == {gen \in FaultGens : gen.pick = "fallback1"}

NextBatch ==
    \/ \E messages \in BatchRequests : BatchProcess(messages)
    \/ \E s \in SessionIds, run \in BatchRuns, gen \in BatchGens :
           FaultyTurn(s, PlainMessage, run, gen, FALSE)
    \/ Millisecond

SpecBatch == InitFaults /\ [][NextBatch]_vars

\* the result analyze gives for the text alone, nothing of a history in it
TextAlone(msg) ==
    LET score == 3500 * msg.run.pattern + 2500 * msg.run.nlp + 25 * msg.run.ml
    IN IF msg.text = "" \/ msg.run.throws
       THEN [messageId |-> msg.id, scamDetected |-> FALSE, confidence |-> 0]
       ELSE [messageId |-> msg.id, scamDetected |-> score >= 650000,
             confidence |-> (score + 50) \div 100]

(* C26: a batch request over N texts, N > 0, is answered with exactly N    *)
(* results, the i-th being the detection result of the i-th text analysed  *)
(* with an empty history, and it changes nothing of the session table      *)
(* (logs, intelligence and flags included), the conversation memory, the   *)
(* reports or the timers.                                                  *)
C26_BatchIsPure ==
    [][(input' # input /\ input'.op = "batch" /\ Len(input'.messages) > 0) =>
           /\ out'.response.status = 200
           /\ Len(out'.results) = Len(input'.messages)
           /\ \A i \in 1..Len(input'.messages) :
                  out'.results[i] = TextAlone(input'.messages[i])
           /\ sessions' = sessions
           /\ conversationMemory' = conversationMemory
           /\ reports' = reports
           /\ inflight' = inflight
           /\ timers' = timers]_vars

\* a batch of two texts with different results, answered while a session
\* with an active agent and a conversation context exist
C26_Witness ==
    /\ input.op = "batch"
    /\ Len(input.messages) = 2
    /\ out.results[1].scamDetected
    /\ ~out.results[2].scamDetected
    /\ \E s \in DOMAIN sessions : sessions[s].isAgentActive
    /\ conversationMemory # << >>

----------------------------------------------------------------------------
(* The final report: what sendFinalCallback hands to sendCallback.        *)

\* the categories CallbackService.buildPayload copies
ReportedCategories ==
    {"bankAccounts", "upiIds", "phishingLinks", "phoneNumbers", "suspiciousKeywords"}

\* CallbackService.buildPayload(session); the server does not call it
buildPayload(s, sess) ==
    [sessionId |-> s,
     scamDetected |-> TRUE,
     totalMessagesExchanged |-> getMessageCount(sess),
     extractedIntelligence |-> [c \in ReportedCategories |-> sess.intelligence[c]],
     agentNotes |-> "notes"]

\* the server's generateAgentNotes: the tactics found in the scammer's texts
\* and the number of messages
generateAgentNotes(sess) ==
    [tactics |-> IF \E i \in 1..Len(sess.messages) :
                        /\ sess.messages[i].sender = "scammer"
                        /\ sess.messages[i].text = "upi"
                 THEN {"payment redirection"}
                 ELSE {"social engineering tactics"},
     lasted |-> getMessageCount(sess)]

\* the payload the server's sendFinalCallback(session) builds and posts
sendFinalCallback(s, sess) ==
    [sessionId |-> s,
     scamDetected |-> TRUE,
     totalMessagesExchanged |-> getMessageCount(sess),
     extractedIntelligence |-> sess.intelligence,
     agentNotes |-> generateAgentNotes(sess)]

\* a process-message turn; input keeps the payload it posts, if it posts one,
\* and the session the payload was built from
ReportTurn(s, m, isScam) ==
    LET s0 == IF s \in DOMAIN sessions THEN sessions[s] ELSE NewSession
        s4 == AfterTurn(s0, m, isScam)
    IN /\ TurnsInput(s, m)
       /\ ProcessMessage(s, m, isScam, MaxInflight)
       /\ input' = IF Terminates(s4)
                   THEN [op |-> "post", sid |-> s, built |-> s4,
                         payload |-> sendFinalCallback(s, s4)]
                   ELSE [op |-> "msg", sid |-> s]
       /\ UNCHANGED <<now, stamps, conversationMemory>>

\* an end request; input keeps the payload it posts, if it posts one
ReportEnd(s) ==
    /\ EndSession(s, MaxInflight)
    /\ input' = IF s \in DOMAIN sessions
                THEN [op |-> "post", sid |-> s, built |-> sessions[s],
                      payload |-> sendFinalCallback(s, sessions[s])]
                ELSE [op |-> "end", sid |-> s]
    /\ UNCHANGED <<now, stamps, conversationMemory>>

\* texts without findings, with a UPI id and with an e-mail address
ReportMessages == [sender : {"scammer"}, text : {"hi", "upi", "mail"}]

NextReport ==
    \/ \E s \in SessionIds, m \in ReportMessages, isScam \in BOOLEAN :
           ReportTurn(s, m, isScam)
    \/ \E s \in SessionIds : ReportEnd(s)
    \/ \E k \in 1..MaxInflight : CollectorAccepts(k) /\ UNCHANGED aux
    \/ \E k \in 1..MaxInflight : CollectorFails(k) /\ UNCHANGED aux

SpecReport == InitValidate /\ [][NextReport]_vars

(* C27: every final report posted to the collector carries exactly the     *)
(* session id, the scam flag, the total message count (the length of the   *)
(* session's message log when the report is built), the intelligence       *)
(* categories bankAccounts, upiIds, phishingLinks, phoneNumbers and        *)
(* suspiciousKeywords, and the notes; emails, cardNumbers, ifscCodes and   *)
(* credentialRequests are not in it.                                       *)
C27_ReportCarriesFixedSubset ==
    input.op = "post" =>
        /\ DOMAIN input.payload = {"sessionId", "scamDetected", "totalMessagesExchanged",
                                   "extractedIntelligence", "agentNotes"}
        /\ input.payload.sessionId = input.sid
        /\ input.payload.scamDetected \in BOOLEAN
        /\ input.payload.totalMessagesExchanged = Len(input.built.messages)
        /\ DOMAIN input.payload.extractedIntelligence = ReportedCategories

----------------------------------------------------------------------------
(* Removal of sessions from the store.                                     *)

\* a closeSession of s was less than PurgeDelay ago for every timeout it set
InGracePeriod(s) ==
    /\ sessions[s].endedAt
    /\ \E t \in timers : t.sid = s
    /\ \A t \in timers : t.sid = s => t.left > 0

(* C28: a session leaves the store only in the idle-timeout sweep, having  *)
(* been idle for more than 30 minutes, or when the grace period of one     *)
(* hour after its closure has ended; and a closed session stays in the     *)
(* store, readable, for the whole grace period.                            *)
C28_RemovedBySweepOrAfterGrace ==
    [][\A s \in DOMAIN sessions :
           /\ s \notin DOMAIN sessions' =>
                  \/ sessions[s].lastActivityAge > maxSessionAge
                  \/ /\ sessions[s].endedAt
                     /\ \E t \in timers : t.sid = s /\ t.left <= 0
           /\ InGracePeriod(s) => s \in DOMAIN sessions']_vars

----------------------------------------------------------------------------
(* The size of the session table.                                          *)

\* SessionManager.maxSessions is 10000; the table of this specification is
\* scaled down to this capacity
maxSessions == 2

IdPool == <<"s1", "s2", "s3", "s4", "s5", "s6">>

\* more session ids than the table is meant to hold
CapacityIds == {IdPool[i] : i \in 1..(maxSessions + 2)}

\* SessionManager.createSession(sessionId): the sessions map afterwards
createSession(store, s) ==
    LET swept == IF Cardinality(DOMAIN store) >= maxSessions
                 THEN Remove(store, Expired(store))
                 ELSE store
    IN IF s \in DOMAIN swept THEN swept ELSE Put(swept, s, NewSession)

\* the handler's getSession / createSession for the id of a request
CreateSession(s) ==
    /\ s \notin DOMAIN sessions
    /\ sessions' = createSession(sessions, s)
    /\ input' = [op |-> "create", sid |-> s]
    /\ out' = Nothing
    /\ episode' = NoEpisode
    /\ UNCHANGED <<timers, sweepDue, inflight, reports, now, stamps, conversationMemory>>

NextCapacity ==
    \/ \E s \in CapacityIds : CreateSession(s)
    \/ Tick /\ UNCHANGED aux
    \/ CleanupOldSessions /\ UNCHANGED aux

SpecCapacity == InitValidate /\ [][NextCapacity]_vars

(* C29: the session table never holds more than maxSessions sessions,      *)
(* whatever createSession calls are made.                                  *)
C29_SessionsWithinMax == Cardinality(DOMAIN sessions) <= maxSessions

----------------------------------------------------------------------------
(* The phase of an engaging turn.                                          *)

\* engaging turns are accepted while the log holds fewer messages than this
MaxPhaseLog == 16

\* buildResponse gets to its end; the fallback picked is the first one
PhaseGens == {gen \in FaultGens : ~gen.buildThrows /\ gen.pick = "fallback1"}

\* the session generateResponse is called for: the message is logged and the
\* agent is active
Engaged(sess, m) ==
    LET s1 == addMessage(sess, m)
    IN IF ~s1.isAgentActive THEN activateAgent(s1) ELSE s1

\* POST /process-message with a message classified as scam, in a turn that
\* does not end the conversation; input keeps the number of engaging turns the
\* session had before, the key of the context generateResponse used, the
\* phase it determined from that context and the phase it returned
PhaseTurn(s, gen) ==
    LET s0 == IF s \in DOMAIN sessions THEN sessions[s] ELSE NewSession
        turn == HandleTurn(s0, conversationMemory, now, PlainMessage,
                           [throws |-> FALSE, scores |-> HighScores], gen, FALSE)
        agent == generateResponse(conversationMemory, Engaged(s0, PlainMessage).messages,
                                  now, gen)
    IN /\ Len(s0.messages) < MaxPhaseLog
       /\ ~Terminates(turn.session)
       /\ sessions' = Put(sessions, s, turn.session)
       /\ conversationMemory' = turn.memory
       /\ input' = [op |-> "engage", sid |-> s, turnsBefore |-> Len(s0.messages) \div 2,
                    context |-> agent.context, determined |-> agent.determined,
                    phase |-> agent.phase]
       /\ out' = [response |-> Response("msg", s, turn.status, turn.replied,
                                        turn.replied, NoCallback),
                  callback |-> NoCallback, reply |-> turn.reply, result |-> turn.result]
       /\ episode' = NoEpisode
       /\ UNCHANGED <<timers, sweepDue, inflight, reports, now, stamps>>

NextPhase ==
    \/ \E s \in RequestIds, gen \in PhaseGens : PhaseTurn(s, gen)
    \/ Millisecond

SpecPhase == InitFaults /\ [][NextPhase]_vars

(* C30: on every engaging turn of a session the phase is determined from   *)
(* the number of turns that session's own context has counted so far:      *)
(* initial while it is at most 2, middle from 3 to 6, late above 6, so     *)
(* that the phase of a session advances from initial through middle to     *)
(* late over its turns.                                                    *)
C30_PhaseFromSessionCount ==
    input.op = "engage" =>
        input.determined = IF input.turnsBefore <= 2 THEN "initial"
                           ELSE IF input.turnsBefore <= 6 THEN "middle"
                           ELSE "late"

----------------------------------------------------------------------------
(* The agent: strategy, trust level and retention of the contexts.         *)

\* AIAgent.initializeStrategies
responseStrategies ==
    [banking_fraud |->
        [initial |-> {"confusion", "concern", "question"},
         middle |-> {"hesitation", "request_clarification", "ask_for_details"},
         late |-> {"reluctance", "ask_for_proof", "delay"}],
     upi_fraud |->
        [initial |-> {"curiosity", "question"},
         middle |-> {"hesitation", "technical_difficulty"},
         late |-> {"reluctance", "ask_alternatives"}],
     phishing |->
        [initial |-> {"confusion", "question"},
         middle |-> {"technical_issue", "ask_why"},
         late |-> {"suspicion", "ask_verification"}],
     lottery_scam |->
        [initial |-> {"surprise", "excitement_cautious"},
         middle |-> {"question", "ask_process"},
         late |-> {"ask_fee_details", "hesitation"}],
     job_scam |->
        [initial |-> {"interest", "question"},
         middle |-> {"ask_details", "hesitation"},
         late |-> {"ask_official_process", "reluctance"}],
     kyc_fraud |->
        [initial |-> {"concern", "question"},
         middle |-> {"ask_official_channel", "hesitation"},
         late |-> {"ask_branch_visit", "delay"}],
     default |->
        [initial |-> {"neutral", "question"},
         middle |-> {"hesitation", "request_clarification"},
         late |-> {"reluctance", "ask_for_proof"}]]

\* AIAgent.selectStrategy: the types its random choice is made among
selectStrategy(intent, phase) ==
    LET strategySet == IF intent \in DOMAIN responseStrategies
                       THEN responseStrategies[intent]
                       ELSE responseStrategies["default"]
    IN IF phase \in DOMAIN strategySet THEN strategySet[phase] ELSE strategySet["middle"]

\* engaging turns are accepted here while the log holds fewer messages than this
MaxAgentLog == 4

\* the intents analyze labels the message with: two with a family of their
\* own, and two without
AgentIntents == {"banking_fraud", "lottery_scam", "suspicious", "unknown"}

\* a plain message and one with a politeness marker
AgentMessages == {PlainMessage, [sender |-> "scammer", text |-> "please"]}

\* message.includes('please') || message.includes('sorry')
IsPolite(m) == m.text = "please"

AgentGens == {gen \in GenerateRuns : gen.pick = "fallback1"}

\* POST /process-message with a message classified as scam, in a turn that
\* does not end the conversation; input keeps what generateResponse was
\* called with and what it reported
AgentTurn(s, m, intent, gen) ==
    LET s0 == IF s \in DOMAIN sessions THEN sessions[s] ELSE NewSession
        turn == HandleTurn(s0, conversationMemory, now, m,
                           [throws |-> FALSE, scores |-> HighScores], gen, FALSE)
        agent == generateResponse(conversationMemory, Engaged(s0, m).messages, now, gen)
    IN /\ Len(s0.messages) < MaxAgentLog
       /\ ~Terminates(turn.session)
       /\ sessions' = Put(sessions, s, turn.session)
       /\ conversationMemory' = turn.memory
       /\ input' = [op |-> "engage", sid |-> s, intent |-> intent,
                    polite |-> IsPolite(m), gen |-> gen,
                    context |-> agent.context, determined |-> agent.determined,
                    strategy |-> agent.strategy, phase |-> agent.phase]
       /\ out' = [response |-> Response("msg", s, turn.status, turn.replied,
                                        turn.replied, NoCallback),
                  callback |-> NoCallback, reply |-> turn.reply, result |-> turn.result]
       /\ episode' = NoEpisode
       /\ UNCHANGED <<timers, sweepDue, inflight, reports, now, stamps>>

\* more than maxAge milliseconds pass without a request
ContextWindowPasses ==
    /\ now <= MaxMillis
    /\ now' = now + maxAge + 1
    /\ UNCHANGED <<sessions, timers, sweepDue, inflight, reports, out, episode, input,
                   stamps, conversationMemory>>

NextAgent ==
    \/ \E s \in SessionIds, m \in AgentMessages, intent \in AgentIntents,
          gen \in AgentGens : AgentTurn(s, m, intent, gen)
    \/ Millisecond
    \/ ContextWindowPasses

SpecAgent == InitFaults /\ [][NextAgent]_vars

(* C31: on every engaging turn the strategy generateResponse reports is    *)
(* one of the strategies configured for the turn's intent (the default     *)
(* family for an intent without a family) and the phase determined for     *)
(* the turn.                                                               *)
C31_StrategyFromConfiguredSet ==
    (input.op = "engage" /\ out.response.replied) =>
        input.strategy \in selectStrategy(input.intent, input.determined)

(* C32: after a call of generateResponse no context that has been idle     *)
(* for more than 30 minutes is left in the conversation memory: the        *)
(* context cleanup removes it, whatever the session store does.            *)
C32_IdleContextsRemoved ==
    [][(input' # input /\ input'.op = "engage") =>
           \A k \in DOMAIN conversationMemory' : now' - k <= maxAge]_vars

\* the trust level of the context used by the step, before it
TrustBefore ==
    IF input'.context \in DOMAIN conversationMemory
    THEN conversationMemory[input'.context].trustLevel
    ELSE NewContext.trustLevel

\* Math.max(0, Math.min(1, trustLevel)), in hundredths
ClampTrust(x) == IF x < 0 THEN 0 ELSE IF x > 100 THEN 100 ELSE x

(* C33: after every call of generateResponse the trust level of every      *)
(* context is within [0,1]; and a call that gets to updateContext lowers   *)
(* the trust level of its context by 0.05 when the reply is a question,    *)
(* raises it by 0.05 when the inbound message holds a politeness marker,   *)
(* and clamps it to [0,1].                                                 *)
C33_TrustUpdatedAndClamped ==
    [][(input' # input /\ input'.op = "engage") =>
           /\ \A k \in DOMAIN conversationMemory' :
                  conversationMemory'[k].trustLevel \in 0..100
           /\ ~input'.gen.buildThrows =>
                  conversationMemory'[input'.context].trustLevel =
                      ClampTrust(TrustBefore
                                 - (IF input'.gen.question THEN 5 ELSE 0)
                                 + (IF input'.polite THEN 5 ELSE 0))]_vars

----------------------------------------------------------------------------
(* Final reports after a delivery.                                         *)

\* the step posts a final report of session s: a handler enters sendCallback
PostsReportOf(s) ==
    \E k \in DOMAIN inflight' : k \notin DOMAIN inflight /\ inflight'[k].sid = s

(* C34: once the collector has accepted a final report of a session, no    *)
(* later operation on that session posts another report for it, so the     *)
(* collector accepts at most one final report per session.                 *)
C34_OneReportPerSession ==
    [][\A s \in DOMAIN sessions :
           reports[s].accepted >= 1 => ~PostsReportOf(s)]_vars

----------------------------------------------------------------------------
(* Closed sessions.                                                        *)

(* C35: a closed session (endedAt set) is terminal for as long as it is    *)
(* stored: no step appends to its message log, changes its intelligence    *)
(* or activates its agent, and in every state endedAt set implies          *)
(* isAgentActive false.                                                    *)
C35_ClosedIsTerminal ==
    [][\A s \in DOMAIN sessions \cap DOMAIN sessions' :
           /\ sessions'[s].endedAt => ~sessions'[s].isAgentActive
           /\ sessions[s].endedAt =>
                  /\ sessions'[s].messages = sessions[s].messages
                  /\ sessions'[s].intelligence = sessions[s].intelligence
                  /\ ~sessions'[s].isAgentActive]_vars

----------------------------------------------------------------------------
(* The purge scheduled by closeSession.                                    *)

\* the step is a timeout of closeSession firing and deleting session s
PurgedByTimer(s) ==
    /\ s \in DOMAIN sessions
    /\ s \notin DOMAIN sessions'
    /\ timers' # timers

(* C36: the timeout set by closeSession removes only the session that was  *)
(* closed, one hour after its last closure: it does not delete a session   *)
(* created later under the same id, which is not closed, and when a        *)
(* session was closed twice the earlier timeout does not remove it before  *)
(* the later one is due.                                                   *)
C36_PurgeRemovesClosedInstance ==
    [][\A s \in DOMAIN sessions :
           PurgedByTimer(s) =>
               /\ sessions[s].endedAt
               /\ \A t \in timers : t.sid = s => t.left <= 0]_vars

----------------------------------------------------------------------------
(* The two flags of a session.                                             *)

(* C37: in every state of every session isAgentActive implies              *)
(* scamDetected, and no step on a stored session resets scamDetected once  *)
(* it is set: not end(), not closeSession, not a later turn classified as  *)
(* not scam.                                                               *)
C37_ActiveImpliesDetected ==
    [][\A s \in DOMAIN sessions' :
           /\ sessions'[s].isAgentActive => sessions'[s].scamDetected
           /\ (s \in DOMAIN sessions /\ sessions[s].scamDetected) =>
                  sessions'[s].scamDetected]_vars

\* a session in which a scam was detected has been closed and has then taken
\* a turn that was not engaged
C37_Witness ==
    \E s \in DOMAIN sessions :
        /\ sessions[s].scamDetected
        /\ sessions[s].endedAt
        /\ ~sessions[s].isAgentActive
        /\ Len(sessions[s].messages) >= 3
        /\ sessions[s].messages[Len(sessions[s].messages)].sender = "scammer"

----------------------------------------------------------------------------
(* What one turn adds to the message log.                                  *)

\* the session a turn of s starts from
SessionBefore(s) == IF s \in DOMAIN sessions THEN sessions[s] ELSE NewSession

\* value v of category c is found in a scammer-authored message of the log
FromScammer(log, c, v) ==
    \E i \in 1..Len(log) : log[i].sender = "scammer" /\ v \in Values(Found(log[i].text, c))

(* C38: a turn that leaves the agent dormant appends exactly one message,  *)
(* the inbound one, produces no reply and leaves the session's             *)
(* intelligence and flags as they were; a turn with the agent active       *)
(* appends exactly two, the inbound message immediately followed by the    *)
(* agent's reply with sender 'user', and every value of the session's      *)
(* intelligence comes from a scammer-authored message of the log.          *)
C38_TurnAppendsOneOrTwo ==
    [][\A s \in SessionIds :
          TurnStep(s) =>
              LET before == SessionBefore(s)
                  after == sessions'[s]
                  n == Len(before.messages)
              IN /\ SubSeq(after.messages, 1, n) = before.messages
                 /\ after.messages[n + 1] \in InboundMessages
                 /\ IF after.isAgentActive
                    THEN /\ Len(after.messages) = n + 2
                         /\ after.messages[n + 2].sender = "user"
                         /\ after.messages[n + 2] = AgentReply
                         /\ out'.response.op = "msg" => out'.response.replied
                         /\ \A c \in Categories :
                                \A v \in Values(after.intelligence[c]) :
                                    FromScammer(after.messages, c, v)
                    ELSE /\ Len(after.messages) = n + 1
                         /\ ~out'.response.replied
                         /\ after.intelligence = before.intelligence
                         /\ after.isAgentActive = before.isAgentActive
                         /\ after.scamDetected = before.scamDetected]_vars

\* an engaged session whose log holds an inbound message with sender 'user'
\* and an account number, and no account number in its intelligence
C38_Witness ==
    \E s \in DOMAIN sessions :
        /\ sessions[s].isAgentActive
        /\ \E i \in 1..Len(sessions[s].messages) :
               sessions[s].messages[i] = [sender |-> "user", text |-> "bank"]
        /\ sessions[s].intelligence["bankAccounts"] = <<>>
        /\ Len(sessions[s].messages) >= 4

----------------------------------------------------------------------------
(* sendCallback: attempts, POSTs and delays.                               *)

(* C39: a sendCallback call that returns success at attempt k, with k from *)
(* 1 to maxRetries, has made exactly k POSTs, reports attempts = k and has *)
(* waited the retry delay exactly k - 1 times: the delay is waited between *)
(* attempts only, so a call that fails has waited it maxRetries - 1        *)
(* times.                                                                  *)
C39_StopsAtFirstSuccess ==
    out.callback.sid # "none" =>
        /\ out.callback.success =>
               /\ out.callback.attempts \in 1..maxRetries
               /\ out.callback.posts = out.callback.attempts
               /\ out.callback.delays = out.callback.attempts - 1
        /\ ~out.callback.success => out.callback.delays = maxRetries - 1

\* sendCallback has just returned success at its second attempt
C39_Witness ==
    /\ out.callback.sid # "none"
    /\ out.callback.success
    /\ out.callback.attempts = 2
    /\ out.callback.posts = 2
    /\ out.callback.delays = 1

====
